---- MODULE Spec2Model ----
(***************************************************************************)
(* Passive-joint kinematics of the Reachy Mini Stewart platform            *)
(* (kinematics-wasm/src/lib.rs), as a state machine.                       *)
(*                                                                         *)
(* Numbers.  An f64 is modelled as a fixed-point integer: the value v is   *)
(* the integer round(v * Scale).  Every product and quotient rounds to the *)
(* nearest unit, as every f64 operation rounds to the nearest float, so    *)
(* results agree with the program's "within tolerance", not bit for bit.   *)
(* The one non-finite value the program can produce on its own, the 0/0 of *)
(* a zero-length normalisation, is the value NaN, which every operation    *)
(* propagates and every comparison answers FALSE to, as IEEE 754 does.     *)
(* The fixed-point model has no signed zero.                               *)
(***************************************************************************)
EXTENDS Integers, Sequences, FiniteSets

Scale == 10^4

\* f64::NAN, produced by the division of line 360 when norm_vec is 0.
NaN == -(2^30)

IsNaN(a) == a = NaN

\* let x = v; body: Let([x \in {v} |-> body]) is body with x the value of v,
\* computed once.
Let(f) == CHOOSE r \in {g[CHOOSE x \in DOMAIN g : TRUE] : g \in {f}} : TRUE

\* Division of integers rounded to the nearest integer (b > 0).
RDiv(a, b) == (2 * a + b) \div (2 * b)

SDiv(a, b) == IF b < 0 THEN RDiv(-a, -b) ELSE RDiv(a, b)

FAdd(a, b) == IF IsNaN(a) \/ IsNaN(b) THEN NaN ELSE a + b

FSub(a, b) == IF IsNaN(a) \/ IsNaN(b) THEN NaN ELSE a - b

FNeg(a) == IF IsNaN(a) THEN NaN ELSE -a

FMul(a, b) == IF IsNaN(a) \/ IsNaN(b) THEN NaN ELSE RDiv(a * b, Scale)

\* a / b; the quotient by zero is not finite.
FDiv(a, b) == IF IsNaN(a) \/ IsNaN(b) \/ b = 0 THEN NaN ELSE SDiv(a * Scale, b)

FAbs(a) == IF IsNaN(a) THEN NaN ELSE IF a < 0 THEN -a ELSE a

FLt(a, b) == ~IsNaN(a) /\ ~IsNaN(b) /\ a < b

FGt(a, b) == ~IsNaN(a) /\ ~IsNaN(b) /\ a > b

\* a < n * 10^-5 and a > n * 10^-5: the comparisons with the literals
\* 0.99999 and 0.001, which are not multiples of 1/Scale.
FLt5(a, n) == ~IsNaN(a) /\ 10 * a < n

FGt5(a, n) == ~IsNaN(a) /\ 10 * a > n

\* std::f64::consts::PI and FRAC_PI_2
PI == 31416

FRAC_PI_2 == 15708

RECURSIVE NewtonSqrt(_, _)
NewtonSqrt(n, x) ==
  CHOOSE r \in {IF y >= x THEN x ELSE NewtonSqrt(n, y) : y \in {(x + n \div x) \div 2}} :
    TRUE

\* The integer square root of n >= 0, rounded to the nearest integer.
ISqrt(n) ==
  IF n <= 0 THEN 0
  ELSE Let([f \in {NewtonSqrt(n, IF n < 46340 THEN n ELSE 46340)} |-> IF n - f * f > f THEN f + 1 ELSE f])

\* sin on [-pi/4, pi/4]: the Taylor polynomial to a^9, in Horner form.
SinPoly(a) ==
  LET u  == RDiv(a * a, Scale)
      t4 == Scale - RDiv(u, 72)
      t3 == Scale - RDiv(RDiv(u * t4, Scale), 42)
      t2 == Scale - RDiv(RDiv(u * t3, Scale), 20)
      t1 == Scale - RDiv(RDiv(u * t2, Scale), 6)
  IN  RDiv(a * t1, Scale)

\* cos on [-pi/4, pi/4]: the Taylor polynomial to a^10, in Horner form.
CosPoly(a) ==
  LET u  == RDiv(a * a, Scale)
      t5 == Scale - RDiv(u, 90)
      t4 == Scale - RDiv(RDiv(u * t5, Scale), 56)
      t3 == Scale - RDiv(RDiv(u * t4, Scale), 30)
      t2 == Scale - RDiv(RDiv(u * t3, Scale), 12)
  IN  Scale - RDiv(RDiv(u * t2, Scale), 2)

\* The angle a brought into [-PI, PI].
WrapPi(a) ==
  LET m == (a + PI) % (2 * PI)
  IN  IF a >= -PI /\ a <= PI THEN a ELSE m - PI

\* sin on [-pi/2, pi/2], by the polynomial that is the more accurate there.
SinHalf(w) ==
  IF 2 * w > FRAC_PI_2 THEN CosPoly(FRAC_PI_2 - w)
  ELSE IF 2 * w < -FRAC_PI_2 THEN -CosPoly(FRAC_PI_2 + w)
  ELSE SinPoly(w)

\* f64::sin
Sin(a) ==
  IF IsNaN(a) THEN NaN
  ELSE LET w == WrapPi(a)
       IN  IF w > FRAC_PI_2 THEN SinHalf(PI - w)
           ELSE IF w < -FRAC_PI_2 THEN SinHalf(-PI - w)
           ELSE SinHalf(w)

\* f64::cos
Cos(a) == IF IsNaN(a) THEN NaN ELSE Sin(a + FRAC_PI_2)

\* atan on [-tan(pi/8), tan(pi/8)]: the Taylor polynomial to r^9.
AtanPoly(r) ==
  LET w  == RDiv(r * r, Scale)
      t4 == RDiv(Scale, 7) - RDiv(w, 9)
      t3 == RDiv(Scale, 5) - RDiv(w * t4, Scale)
      t2 == RDiv(Scale, 3) - RDiv(w * t3, Scale)
      t1 == Scale - RDiv(w * t2, Scale)
  IN  RDiv(r * t1, Scale)

\* atan of the ratio p / q for 0 <= p <= q, q > 0: a value in [0, pi/4].
AtanRatio(p, q) ==
  IF 10000 * p > 4142 * q
    THEN RDiv(FRAC_PI_2, 2) + AtanPoly(SDiv((p - q) * Scale, p + q))
    ELSE AtanPoly(RDiv(p * Scale, q))

\* atan2 for y >= 0, x >= 0, not both 0: a value in [0, pi/2].
AtanQuadrant(y, x) ==
  IF y <= x THEN AtanRatio(y, x) ELSE FRAC_PI_2 - AtanRatio(x, y)

\* f64::atan2 (self = y, other = x)
Atan2(y, x) ==
  IF IsNaN(y) \/ IsNaN(x) THEN NaN
  ELSE IF y = 0 /\ x = 0 THEN 0
  ELSE LET q == AtanQuadrant(IF y < 0 THEN -y ELSE y, IF x < 0 THEN -x ELSE x)
           h == IF x < 0 THEN PI - q ELSE q
       IN  IF y < 0 THEN -h ELSE h

\* f64::asin
Asin(s) ==
  IF IsNaN(s) \/ s > Scale \/ s < -Scale THEN NaN
  ELSE Let([c \in {ISqrt(Scale * Scale - s * s)} |-> Atan2(s, c)])

(***************************************************************************)
(* nalgebra: Vector3, Matrix3 and Matrix4 are tuples of rows, indexed from *)
(* 0 as in the source.                                                      *)
(***************************************************************************)
At(m, r, c) == m[r + 1][c + 1]

Idx(s, k) == s[k + 1]

Vector3(a, b, c) == <<a, b, c>>

Matrix3(a, b, c, d, e, f, g, h, k) == <<<<a, b, c>>, <<d, e, f>>, <<g, h, k>>>>

Identity3 == Matrix3(Scale, 0, 0, 0, Scale, 0, 0, 0, Scale)

FSum3(a, b, c) == FAdd(FAdd(a, b), c)

VAdd(u, v) == Vector3(FAdd(u[1], v[1]), FAdd(u[2], v[2]), FAdd(u[3], v[3]))

VSub(u, v) == Vector3(FSub(u[1], v[1]), FSub(u[2], v[2]), FSub(u[3], v[3]))

\* v / n
VDiv(v, n) == Vector3(FDiv(v[1], n), FDiv(v[2], n), FDiv(v[3], n))

\* v * s
VScale(v, s) == Vector3(FMul(v[1], s), FMul(v[2], s), FMul(v[3], s))

Dot(u, v) == FSum3(FMul(u[1], v[1]), FMul(u[2], v[2]), FMul(u[3], v[3]))

Cross(u, v) ==
  Vector3(FSub(FMul(u[2], v[3]), FMul(u[3], v[2])),
          FSub(FMul(u[3], v[1]), FMul(u[1], v[3])),
          FSub(FMul(u[1], v[2]), FMul(u[2], v[1])))

\* Vector3::norm
Norm(v) ==
  IF IsNaN(v[1]) \/ IsNaN(v[2]) \/ IsNaN(v[3]) THEN NaN
  ELSE ISqrt(v[1] * v[1] + v[2] * v[2] + v[3] * v[3])

\* Vector3::normalize: the vector over its norm, with no guard on the norm.
VNormalize(v) == Let([n \in {Norm(v)} |-> VDiv(v, n)])

MatVec(m, v) == Vector3(Dot(m[1], v), Dot(m[2], v), Dot(m[3], v))

\* Column c of the first three rows of m.
Col3(m, c) == Vector3(m[1][c], m[2][c], m[3][c])

Transpose(m) == <<Col3(m, 1), Col3(m, 2), Col3(m, 3)>>

\* The row r times the matrix b.
RowMul3(r, b) == Vector3(Dot(r, Col3(b, 1)), Dot(r, Col3(b, 2)), Dot(r, Col3(b, 3)))

MatMul3(a, b) == <<RowMul3(a[1], b), RowMul3(a[2], b), RowMul3(a[3], b)>>

Dot4(u, b, c) == FAdd(Dot(u, Col3(b, c)), FMul(u[4], b[4][c]))

RowMul4(r, b) == <<Dot4(r, b, 1), Dot4(r, b, 2), Dot4(r, b, 3), Dot4(r, b, 4)>>

MatMul4(a, b) == <<RowMul4(a[1], b), RowMul4(a[2], b), RowMul4(a[3], b), RowMul4(a[4], b)>>

MatAdd(a, b) == <<VAdd(a[1], b[1]), VAdd(a[2], b[2]), VAdd(a[3], b[3])>>

\* m * s
MatScale(m, s) == <<VScale(m[1], s), VScale(m[2], s), VScale(m[3], s)>>

\* m.fixed_view::<3, 3>(0, 0)
Rot3(m) ==
  <<Vector3(m[1][1], m[1][2], m[1][3]),
    Vector3(m[2][1], m[2][2], m[2][3]),
    Vector3(m[3][1], m[3][2], m[3][3])>>

\* Vector3::new(m[(0, 3)], m[(1, 3)], m[(2, 3)])
Trans3(m) == Vector3(At(m, 0, 3), At(m, 1, 3), At(m, 2, 3))

\* The skew-symmetric cross-product matrix of v.
Skew(v) == Matrix3(0, FNeg(v[3]), v[2], v[3], 0, FNeg(v[1]), FNeg(v[2]), v[1], 0)

(***************************************************************************)
(* The calibration data, rounded to 1/Scale.                               *)
(***************************************************************************)
HEAD_Z_OFFSET == 1770

MOTOR_ARM_LENGTH == 400

get_motors ==
  << [branch_position |-> <<206, 218, 0>>,
      t_world_motor |->
        << <<8660, 0, -5000, 270>>,
           <<-5000, 0, -8660, 267>>,
           <<0, 10000, 0, 766>>,
           <<0, 0, 0, 10000>> >>],
     [branch_position |-> <<85, 288, 0>>,
      t_world_motor |->
        << <<-8660, 0, -5000, 97>>,
           <<5000, 0, -8660, 367>>,
           <<0, -10000, 0, 766>>,
           <<0, 0, 0, 10000>> >>],
     [branch_position |-> <<-292, 70, 0>>,
      t_world_motor |->
        << <<0, 0, 10000, -367>>,
           <<10000, 0, 0, 100>>,
           <<0, 10000, 0, 766>>,
           <<0, 0, 0, 10000>> >>],
     [branch_position |-> <<-292, -70, 0>>,
      t_world_motor |->
        << <<0, 0, 10000, -367>>,
           <<-10000, 0, 0, -100>>,
           <<0, -10000, 0, 766>>,
           <<0, 0, 0, 10000>> >>],
     [branch_position |-> <<85, -288, 0>>,
      t_world_motor |->
        << <<-8660, 0, -5000, 97>>,
           <<-5000, 0, 8660, -367>>,
           <<0, 10000, 0, 766>>,
           <<0, 0, 0, 10000>> >>],
     [branch_position |-> <<206, -218, 0>>,
      t_world_motor |->
        << <<8660, 0, -5000, 270>>,
           <<5000, 0, 8660, -267>>,
           <<0, -10000, 0, 766>>,
           <<0, 0, 0, 10000>> >>] >>

PASSIVE_ORIENTATION_OFFSET ==
  << <<-1375, -882, 21035>>,
     <<-31416, 0, -31416>>,
     <<3736, 882, -10381>>,
     <<-861, 882, 10381>>,
     <<1240, 882, -10381>>,
     <<30613, 882, 10381>>,
     <<31416, 0, 0>> >>

STEWART_ROD_DIR_IN_PASSIVE_FRAME ==
  << <<10000, 0, 0>>,
     <<5061, -8580, -883>>,
     <<-10000, 0, 0>>,
     <<-10000, 0, 0>>,
     <<-10000, 0, 0>>,
     <<-10000, 0, 0>> >>

T_HEAD_XL_330 ==
  << <<4822, -7068, -5177, 206>>,
     <<1766, -5003, 8476, -218>>,
     <<-8581, -5001, -1164, 0>>,
     <<0, 0, 0, 10000>> >>

(***************************************************************************)
(* Rotation utilities                                                      *)
(***************************************************************************)
rotation_from_euler_xyz(x, y, z) ==
  Let([cx \in {Cos(x)} |->
  Let([sx \in {Sin(x)} |->
  Let([cy \in {Cos(y)} |->
  Let([sy \in {Sin(y)} |->
  Let([cz \in {Cos(z)} |->
  Let([sz \in {Sin(z)} |->
      Matrix3(
        FMul(cy, cz),
        FSub(FMul(FMul(cz, sx), sy), FMul(cx, sz)),
        FAdd(FMul(FMul(cx, cz), sy), FMul(sx, sz)),
        FMul(cy, sz),
        FAdd(FMul(cx, cz), FMul(FMul(sx, sy), sz)),
        FSub(FMul(FMul(cx, sy), sz), FMul(cz, sx)),
        FNeg(sy),
        FMul(cy, sx),
        FMul(cx, cy))])])])])])])

\* A variant of euler_from_rotation_xyz without the gimbal-lock case.
euler_from_rotation_no_lock(r) ==
  <<Atan2(FNeg(At(r, 1, 2)), At(r, 2, 2)),
    Asin(At(r, 0, 2)),
    Atan2(FNeg(At(r, 0, 1)), At(r, 0, 0))>>

\* A variant of euler_from_rotation_xyz that reads the matrix transposed.
euler_from_rotation_transposed(r) ==
  LET sy == At(r, 2, 0)
  IN  IF FLt5(FAbs(sy), 99999)
        THEN <<Atan2(FNeg(At(r, 2, 1)), At(r, 2, 2)),
               Asin(sy),
               Atan2(FNeg(At(r, 1, 0)), At(r, 0, 0))>>
        ELSE <<Atan2(At(r, 1, 2), At(r, 1, 1)),
               IF FGt(sy, 0) THEN FRAC_PI_2 ELSE -FRAC_PI_2,
               0>>

euler_from_rotation_xyz(r) ==
  LET sy == At(r, 0, 2)
  IN  IF FLt5(FAbs(sy), 99999)
        THEN <<Atan2(FNeg(At(r, 1, 2)), At(r, 2, 2)),
               Asin(sy),
               Atan2(FNeg(At(r, 0, 1)), At(r, 0, 0))>>
        ELSE <<Atan2(At(r, 2, 1), At(r, 1, 1)),
               IF FGt(sy, 0) THEN FRAC_PI_2 ELSE -FRAC_PI_2,
               0>>

\* A variant of PerpendicularTo without the second choice.
PerpendicularToX(from_n) == Cross(Vector3(Scale, 0, 0), from_n)

\* Lines 205-208: a vector perpendicular to from_n, the cross product with
\* the x axis, or with the y axis when that one is shorter than 0.001.
PerpendicularTo(from_n) ==
  Let([perp \in {Cross(Vector3(Scale, 0, 0), from_n)} |->
    IF FLt5(Norm(perp), 100) THEN Cross(Vector3(0, Scale, 0), from_n) ELSE perp])

\* A variant of AlignOpposite that turns by a quarter of a turn.
AlignOppositeQuarter(from_n) ==
  Let([axis \in {VNormalize(PerpendicularTo(from_n))} |->
  Let([k \in {Skew(axis)} |->
    MatAdd(MatAdd(Identity3, k), MatMul3(k, k))])])

\* Lines 203-215: the rotation by 180 degrees about an axis perpendicular to
\* from_n.
AlignOpposite(from_n) ==
  Let([perp \in {PerpendicularTo(from_n)} |->
  Let([axis \in {VNormalize(perp)} |->
  Let([k \in {Skew(axis)} |->
  Let([kk \in {MatMul3(k, k)} |->
    MatAdd(Identity3, MatScale(kk, 2 * Scale))])])])])

\* Lines 217-226: Rodrigues' formula.
AlignRodrigues(from_n, to_n, dot) ==
  Let([cross \in {Cross(from_n, to_n)} |->
  Let([s \in {Norm(cross)} |->
  Let([c \in {dot} |->
  Let([k \in {Skew(cross)} |->
  Let([kk \in {MatMul3(k, k)} |->
  Let([factor \in {FDiv(FSub(Scale, c), FMul(s, s))} |->
    MatAdd(MatAdd(Identity3, k), MatScale(kk, factor))])])])])])])

\* A variant of AlignBranch that takes the general case for every dot
\* product above -0.99999.
AlignBranchNoParallel(dot) ==
  IF FLt5(dot, -99999) THEN "opposite" ELSE "general"

\* Lines 198 and 203: which of the three cases a dot product selects.
AlignBranch(dot) ==
  IF FGt5(dot, 99999) THEN "parallel"
  ELSE IF FLt5(dot, -99999) THEN "opposite"
  ELSE "general"

align_vectors(from, to) ==
  Let([from_n \in {VNormalize(from)} |->
  Let([to_n \in {VNormalize(to)} |->
  Let([dot \in {Dot(from_n, to_n)} |->
  Let([branch \in {AlignBranch(dot)} |->
    IF branch = "parallel" THEN Identity3
    ELSE IF branch = "opposite" THEN AlignOpposite(from_n)
    ELSE AlignRodrigues(from_n, to_n, dot)])])])])

(***************************************************************************)
(* calculate_passive_joints, step by step.  Each operator is one stretch   *)
(* of the function body and takes what that stretch reads.                 *)
(***************************************************************************)
\* A variant of InputTooShort that asks for both inputs to be short.
InputTooShortBoth(head_joints, head_pose) == Len(head_joints) < 7 /\ Len(head_pose) < 16

\* A variant of InputTooShort that rejects every length but 7 and 16.
InputWrongLength(head_joints, head_pose) == Len(head_joints) # 7 \/ Len(head_pose) # 16

\* The early return's condition (line 239).
InputTooShort(head_joints, head_pose) == Len(head_joints) < 7 \/ Len(head_pose) < 16

\* vec![0.0; 21]
ZeroJoints == [k \in 1..21 |-> 0]

\* Lines 247-264: the 4x4 matrix of the first 16 elements, row-major.
PoseRow(head_pose, r) ==
  <<Idx(head_pose, 4 * r), Idx(head_pose, 4 * r + 1),
    Idx(head_pose, 4 * r + 2), Idx(head_pose, 4 * r + 3)>>

PoseMatrix(head_pose) ==
  <<PoseRow(head_pose, 0), PoseRow(head_pose, 1), PoseRow(head_pose, 2), PoseRow(head_pose, 3)>>

\* Lines 272-275: the rotation about Z by -body_yaw.
RzInverse(cos_yaw, sin_yaw) ==
  <<<<cos_yaw, sin_yaw, 0, 0>>,
    <<FNeg(sin_yaw), cos_yaw, 0, 0>>,
    <<0, 0, Scale, 0>>,
    <<0, 0, 0, Scale>>>>

\* A variant of NormalizePose that turns by body_yaw.
NormalizePoseForward(head_joints, head_pose, z_offset) ==
  Let([body_yaw \in {Idx(head_joints, 0)} |->
  Let([pose0 \in {PoseMatrix(head_pose)} |->
  Let([pose1 \in {[pose0 EXCEPT ![3][4] = FAdd(@, z_offset)]} |->
  Let([r_z \in {RzInverse(Cos(body_yaw), FNeg(Sin(body_yaw)))} |->
    MatMul4(r_z, pose1)])])])])

\* Lines 243-276: the pose with the head offset added to its Z translation,
\* premultiplied by the rotation about Z by -body_yaw.
NormalizePose(head_joints, head_pose, z_offset) ==
  Let([body_yaw \in {Idx(head_joints, 0)} |->
  Let([pose0 \in {PoseMatrix(head_pose)} |->
  Let([pose1 \in {[pose0 EXCEPT ![3][4] = FAdd(@, z_offset)]} |->
  Let([r_z_inv \in {RzInverse(Cos(body_yaw), Sin(body_yaw))} |->
    MatMul4(r_z_inv, pose1)])])])])

\* A variant of PassiveCorrections that corrects nothing.
PassiveCorrectionsNone(offsets) == [k \in 1..Len(offsets) |-> Identity3]

\* Lines 279-282: the correction rotation of each of the 7 passive joints.
PassiveCorrections(offsets) ==
  [k \in 1..Len(offsets) |->
     rotation_from_euler_xyz(offsets[k][1], offsets[k][2], offsets[k][3])]

\* Lines 296-305: the branch position on the platform, in the world frame.
BranchPosWorld(pose, motor) ==
  LET pose_rot   == Rot3(pose)
      pose_trans == Trans3(pose)
      branch_pos == motor.branch_position
  IN  VAdd(MatVec(pose_rot, branch_pos), pose_trans)

\* Lines 308-310: the servo's rotation about Z.
ServoRotation(stewart_joint) ==
  Let([cos_z \in {Cos(stewart_joint)} |->
  Let([sin_z \in {Sin(stewart_joint)} |->
    Matrix3(cos_z, FNeg(sin_z), 0, sin_z, cos_z, 0, 0, 0, Scale)])])

\* Lines 289, 313-340: the tip of the servo arm, in the world frame.
WorldServoArm(motor, r_servo, arm_length) ==
  LET t_world_motor_rot   == Rot3(motor.t_world_motor)
      t_world_motor_trans == Trans3(motor.t_world_motor)
      t_motor_servo_arm   == Vector3(arm_length, 0, 0)
      servo_pos_local     == MatVec(r_servo, t_motor_servo_arm)
  IN  VAdd(MatVec(t_world_motor_rot, servo_pos_local), t_world_motor_trans)

\* Line 343: the servo's orientation with the passive correction applied.
WorldServoRotation(motor, r_servo, passive_correction) ==
  Let([r_world_motor_servo \in {MatMul3(Rot3(motor.t_world_motor), r_servo)} |->
    MatMul3(r_world_motor_servo, passive_correction)])

\* A variant of StewartJointIndex that forgets that the body yaw comes
\* first.
StewartJointIndexSame(i) == i

\* Line 293: the position in head_joints of the joint of motor i.
StewartJointIndex(i) == i + 1

\* Lines 293-364: one iteration of the loop over the motors, for index i: the
\* aligning rotation r_servo_branch, the servo orientation r_world_servo and
\* the norm the direction was divided by.  The division by norm_vec has no
\* guard.
LegSolve(i, head_joints, pose, motor, passive_corrections, rod_dirs, arm_length) ==
  Let([branch_pos_world \in {BranchPosWorld(pose, motor)} |->
  Let([r_servo \in {ServoRotation(Idx(head_joints, StewartJointIndex(i)))} |->
  Let([p_world_servo_arm \in {WorldServoArm(motor, r_servo, arm_length)} |->
  Let([r_world_servo \in {WorldServoRotation(motor, r_servo, Idx(passive_corrections, i))} |->
  Let([vec_servo_to_branch \in {VSub(branch_pos_world, p_world_servo_arm)} |->
  Let([vec_servo_to_branch_in_servo \in {MatVec(Transpose(r_world_servo), vec_servo_to_branch)} |->
  Let([norm_vec \in {Norm(vec_servo_to_branch_in_servo)} |->
  Let([straight_line_dir \in {VDiv(vec_servo_to_branch_in_servo, norm_vec)} |->
  Let([r_servo_branch \in {align_vectors(Idx(rod_dirs, i), straight_line_dir)} |->
    [r_servo_branch |-> r_servo_branch,
     r_world_servo |-> r_world_servo,
     norm_vec |-> norm_vec]])])])])])])])])])

\* Lines 379-398: the 7th passive joint.
HeadSolve(pose, t_head_xl_330, last_r_world_servo, last_r_servo_branch, passive_corrections) ==
  Let([r_head_xl330 \in {MatMul3(Rot3(pose), Rot3(t_head_xl_330))} |->
  Let([r_rod \in {MatMul3(last_r_world_servo, last_r_servo_branch)} |->
  Let([r_rod_current \in {MatMul3(r_rod, Idx(passive_corrections, 6))} |->
  Let([r_dof \in {MatMul3(Transpose(r_rod_current), r_head_xl330)} |->
    euler_from_rotation_xyz(r_dof)])])])])

\* A variant of SaveCarry that keeps the rotations of the iteration before
\* the last.
SaveCarryEarly(i) == i = 4

\* Line 371: the iteration whose rotations are kept for the 7th joint.
SaveCarry(i) == i = 5

\* A variant of OutputIndex with a stride of 2.
OutputIndexPacked(i, c) == i * 2 + c

\* Lines 366-368: the position of component c of leg i's angles.
OutputIndex(i, c) == i * 3 + c

\* Lines 284-286: the zeroed output and the two carried rotations before the
\* loop.
LoopEntry ==
  [passive_joints |-> ZeroJoints,
   last_r_servo_branch |-> Identity3,
   last_r_world_servo |-> Identity3]

\* Lines 366-374: leg i's angles stored in the output, and its rotations kept
\* when SaveCarry names it.
StoreLeg(i, st, L, euler) ==
  [passive_joints |-> [st.passive_joints EXCEPT ![OutputIndex(i, 0) + 1] = euler[1],
                                                ![OutputIndex(i, 1) + 1] = euler[2],
                                                ![OutputIndex(i, 2) + 1] = euler[3]],
   last_r_servo_branch |-> IF SaveCarry(i) THEN L.r_servo_branch
                                           ELSE st.last_r_servo_branch,
   last_r_world_servo |-> IF SaveCarry(i) THEN L.r_world_servo
                                          ELSE st.last_r_world_servo]

\* Lines 364-374: the angles of leg i's aligning rotation, stored.
StoreLegAngles(i, st, L) == StoreLeg(i, st, L, euler_from_rotation_xyz(L.r_servo_branch))

\* Lines 292-375: the loop over the motors, from index i on.
RECURSIVE LegLoop(_, _, _, _, _, _)
LegLoop(i, head_joints, pose, motors, passive_corrections, st) ==
  IF i >= Len(motors) THEN st
  ELSE LegLoop(i + 1, head_joints, pose, motors, passive_corrections,
               StoreLegAngles(i, st,
                 LegSolve(i, head_joints, pose, Idx(motors, i), passive_corrections,
                          STEWART_ROD_DIR_IN_PASSIVE_FRAME, MOTOR_ARM_LENGTH)))

\* Lines 400-404: the 7th joint's angles stored in the last three positions.
StoreHead(st, euler_7) ==
  [st.passive_joints EXCEPT ![19] = euler_7[1], ![20] = euler_7[2], ![21] = euler_7[3]]

\* Lines 377-404: the 7th joint after the loop.
HeadAfterLegs(pose, passive_corrections, st) ==
  StoreHead(st, HeadSolve(pose, T_HEAD_XL_330, st.last_r_world_servo,
                          st.last_r_servo_branch, passive_corrections))

\* Lines 284-404: the loop and the 7th joint on a normalized pose.
SolveFrom(head_joints, pose, passive_corrections) ==
  HeadAfterLegs(pose, passive_corrections,
                LegLoop(0, head_joints, pose, get_motors, passive_corrections, LoopEntry))

\* Lines 243-404: the computation past the early return.
SolveComputed(head_joints, head_pose) ==
  SolveFrom(head_joints, NormalizePose(head_joints, head_pose, HEAD_Z_OFFSET),
            PassiveCorrections(PASSIVE_ORIENTATION_OFFSET))

\* Lines 238-405: the function as a whole, as one call on its own computes it.
calculate_passive_joints(head_joints, head_pose) ==
  IF InputTooShort(head_joints, head_pose) THEN ZeroJoints
  ELSE SolveComputed(head_joints, head_pose)

(***************************************************************************)
(* The callers and their inputs                                            *)
(***************************************************************************)
\* The number of threads that call calculate_passive_joints concurrently.
NumThreads == 2

\* By how many elements an input sequence may be shorter or longer than the
\* 7 joints and the 16 pose entries.
LenSlack == 1

Threads == 1..NumThreads

\* The head joints of the three tests (lines 420, 451, 482).
ZeroJointsInput == <<0, 0, 0, 0, 0, 0, 0>>

YawJointsInput == <<1000, 0, 0, 0, 0, 0, 0>>

StewartJointsInput == <<0, 5000, 5000, 5000, 5000, 5000, 5000>>

\* The identity pose of the tests (line 421).
IdentityPose == <<Scale, 0, 0, 0, 0, Scale, 0, 0, 0, 0, Scale, 0, 0, 0, 0, Scale>>

\* A pose that puts the branch anchor of leg 0 on the tip of its servo arm
\* when every joint is 0.
DegeneratePose == <<Scale, 0, 0, 410, 0, Scale, 0, -151, 0, 0, Scale, -1004, 0, 0, 0, Scale>>

\* The expected angles of the three tests (lines 424-429, 455-460 and
\* 486-492), rounded to 1/Scale.
ExpectedZeroJoints ==
  <<23, 363, -1239, -222, 14, -1273, -36, -642, -1120, 19, -299, 1256,
    -22, -346, -1243, 18, 292, -1257, 18, 292, -1257>>

ExpectedSmallYaw ==
  <<23, 309, -1491, -266, -36, -1031, -45, -648, -1379, 17, -338, 1007,
    -22, -289, -1495, 17, 332, -1009, 921, 747, -941>>

ExpectedAllStewart ==
  <<201, 665, -5884, -51, -349, 2740, -566, -1953, -5622, -3, -18, -2766,
    -179, -589, -5891, -5, 34, 2766, 420, 442, -2210>>

\* The tests: head joints and the angles expected for them with the
\* identity pose.
Scenarios ==
  {<<ZeroJointsInput, ExpectedZeroJoints>>,
   <<YawJointsInput, ExpectedSmallYaw>>,
   <<StewartJointsInput, ExpectedAllStewart>>}

\* The first n elements of s, continued with 5000 (0.5) beyond its end.
OfLen(s, n) == [k \in 1..n |-> IF k <= Len(s) THEN s[k] ELSE Scale \div 2]

JointSamples ==
  {ZeroJointsInput, YawJointsInput, StewartJointsInput}
    \cup {OfLen(YawJointsInput, n) : n \in (7 - LenSlack)..(7 + LenSlack)}

PoseSamples ==
  {IdentityPose, DegeneratePose}
    \cup {OfLen(IdentityPose, n) : n \in (16 - LenSlack)..(16 + LenSlack)}

\* The inputs of two callers that run at the same time.
ConcurrentJoints == {ZeroJointsInput, StewartJointsInput}

VARIABLES
  act,         \* act[t]: the activation of calculate_passive_joints in thread t
  carry,       \* carry[t]: last_r_servo_branch and last_r_world_servo of act[t]
  statics,     \* the calibration data
  overlapped,  \* overlapped[t]: another thread has stepped during act[t]'s call
  memo,        \* one earlier call, as an observer remembers it
  eu,          \* a round trip through the two Euler conversions
  al,          \* one call of align_vectors
  px,          \* the LocalProxyState and the calls that set and clear its target
  ud,          \* the daemon and one call of update_daemon
  dm,          \* the DaemonState, the daemons alive and the window events
  tr,          \* the uv-trampoline and its child
  sv,          \* version strings and what compare_semver makes of them
  us,          \* the UsbMonitorState and the ports of the machine
  ws           \* one WebSocket relay of the local proxy

solveVars == <<act, carry, statics, overlapped, memo>>

vars == <<act, carry, statics, overlapped, memo, eu, al, px, ud, dm, tr, sv, us, ws>>

\* The desktop application's state.
appVars == <<px, ud, dm, tr, sv, us, ws>>

\* What a step of calculate_passive_joints, of the Euler round trip, of the
\* call of align_vectors, of the proxy and of the update leaves alone.
outsideSolve == <<eu, al, appVars>>

outsideEuler == <<solveVars, al, appVars>>

outsideAlign == <<solveVars, eu, appVars>>

outsideProxy == <<solveVars, eu, al, ud, dm, tr, sv, us, ws>>

outsideUpdate == <<solveVars, eu, al, px, dm, tr, sv, us, ws>>

outsideDaemon == <<solveVars, eu, al, px, ud, tr, sv, us, ws>>

outsideTrampoline == <<solveVars, eu, al, px, ud, dm, sv, us, ws>>

outsideSemver == <<solveVars, eu, al, px, ud, dm, tr, us, ws>>

outsideUsb == <<solveVars, eu, al, px, ud, dm, tr, sv, ws>>

outsideRelay == <<solveVars, eu, al, px, ud, dm, tr, sv, us>>

\* The consts of lines 35-67.
StaticTables ==
  [HEAD_Z_OFFSET |-> HEAD_Z_OFFSET,
   MOTOR_ARM_LENGTH |-> MOTOR_ARM_LENGTH,
   T_HEAD_XL_330 |-> T_HEAD_XL_330,
   PASSIVE_ORIENTATION_OFFSET |-> PASSIVE_ORIENTATION_OFFSET,
   STEWART_ROD_DIR_IN_PASSIVE_FRAME |-> STEWART_ROD_DIR_IN_PASSIVE_FRAME]

\* A variant of CarrySlot in which every activation uses the same storage.
CarrySlotShared(t) == 1

\* The activation that holds thread t's last_r_servo_branch and
\* last_r_world_servo: they are locals (lines 285-286), so its own.
CarrySlot(t) == t

\* A variant of CarryAtEntry that leaves the two rotations as they were.
CarryAtEntryKept(old) == old

\* Lines 285-286: both locals start as the identity, whatever the memory
\* they occupy held before.
CarryAtEntry(old) ==
  [last_r_servo_branch |-> Identity3, last_r_world_servo |-> Identity3, leg |-> -1]

Computing == {"normalize", "legs", "head"}

NoWrites == [k \in 1..21 |-> 0]

StepNames == <<"leg0", "leg1", "leg2", "leg3", "leg4", "leg5">>

NoMemo ==
  [set |-> FALSE, later |-> FALSE, head_joints |-> <<>>, head_pose |-> <<>>, ret |-> <<>>]

EulerIdle == [stage |-> "idle", x |-> 0, y |-> 0, z |-> 0, r |-> <<>>, out |-> <<>>]

AlignIdle ==
  [stage |-> "idle", from |-> <<>>, to |-> <<>>, from_n |-> <<>>, to_n |-> <<>>,
   dot |-> 0, branch |-> "", perp_x |-> <<>>, perp |-> <<>>, axis |-> <<>>,
   s |-> 0, r |-> <<>>]

\* The number of callers of set_target_host and clear_target_host that run
\* at the same time.
NumCallers == 2

Callers == 1..NumCallers

\* local_proxy.rs, line 19.
PROXY_PORTS == <<8000, 8042>>

\* LocalProxyState::new (local_proxy.rs, lines 29-34): no target host and no
\* task handle; the Mutex of proxy_handles is free and no call is under way.
\* Option<String> is a sequence of at most one host.
ProxyIdle ==
  [target_host |-> <<>>, proxy_handles |-> <<>>, lock |-> 0,
   call |-> [c \in Callers |-> [pc |-> "idle", k |-> 0, said |-> ""]]]

\* The daemon is not running and update_daemon has not been called.
UpdateIdle ==
  [os |-> "linux", pc |-> "idle", k |-> 0, daemon |-> "stopped", was |-> "stopped",
   pre_release |-> FALSE, pip_path |-> "", args |-> <<>>, ret |-> "", trace |-> <<>>]

\* lib.rs, lines 116-119: no process is held and there is no log entry; no
\* daemon is alive, no call of start_daemon is under way and no window event
\* has been handled.
DaemonIdle ==
  [process |-> <<>>, logs |-> <<>>, alive |-> {}, calls |-> 0, pc |-> "idle", k |-> 0,
   sim_mode |-> FALSE, ret |-> "", trace |-> <<>>, was_logs |-> <<>>, was_alive |-> {},
   event |-> <<>>, did |-> <<>>]

\* uv-trampoline.rs, before line 708: the command is built and no child has
\* been spawned.  An Option is a sequence of at most one value.
TrampolineIdle ==
  [os |-> "linux", is_pip_install |-> FALSE, pc |-> "idle", child |-> "none",
   status |-> <<>>, own |-> FALSE, registered |-> FALSE, term_now |-> FALSE,
   kill_sent |-> FALSE, resigned |-> FALSE, exit_code |-> <<>>, trace |-> <<>>]

\* No release has been fetched from PyPI.
SemverIdle ==
  [pc |-> "idle", pre_release |-> FALSE, releases |-> {}, info_version |-> <<>>,
   versions |-> <<>>, ret |-> <<>>]

\* UsbMonitorState::new (usb/monitor.rs, lines 23-28), with the monitor's
\* window receiving messages and no update made yet.
UsbIdle ==
  [reachy_port |-> <<>>, available_ports |-> <<>>, monitor |-> "running", msg |-> <<>>,
   last |-> "none", enumerated |-> <<>>]

\* The two futures of handle_websocket (local_proxy.rs, lines 205-235).
Directions == {"local_to_remote", "remote_to_local"}

\* A connection that handle_websocket has not yet accepted: no future reads,
\* nothing has been sent on and no close frame has been sent to the client.
RelayIdle ==
  [stage |-> "accept", ret |-> "", close_frame |-> <<>>,
   dir |-> [d \in Directions |-> [pc |-> "idle", msg |-> <<>>, why |-> ""]],
   sent |-> [d \in Directions |-> <<>>]]

\* The parts of the application that the kinematics do not touch.
RestIdle ==
  /\ dm = DaemonIdle
  /\ tr = TrampolineIdle
  /\ sv = SemverIdle
  /\ us = UsbIdle
  /\ ws = RelayIdle

AppInit == px = ProxyIdle /\ ud = UpdateIdle /\ RestIdle

\* Before the first call no activation holds the two rotations.
NoCarry == [last_r_servo_branch |-> <<>>, last_r_world_servo |-> <<>>, leg |-> -1]

SolveInit ==
  /\ act = [t \in Threads |->
             [pc |-> "idle", head_joints |-> <<>>, head_pose |-> <<>>,
              motors |-> <<>>, pose |-> <<>>, passive_corrections |-> <<>>,
              passive_joints |-> <<>>, i |-> 0, ret |-> <<>>,
              trace |-> <<>>, writes |-> NoWrites, carry_leg |-> -1,
              zero_div |-> FALSE]]
  /\ carry = [t \in Threads |-> NoCarry]
  /\ statics = StaticTables
  /\ overlapped = [t \in Threads |-> FALSE]
  /\ memo = NoMemo

Init == SolveInit /\ eu = EulerIdle /\ al = AlignIdle /\ AppInit

\* Thread t steps: every other call in progress has been overlapped.
Overlap(t) ==
  overlapped' = [u \in Threads |->
                   IF u = t THEN overlapped[u]
                   ELSE overlapped[u] \/ act[u].pc \in Computing]

\* A variant of Call whose early return hands out the vector the previous
\* call returned.
CallStaleOutput(t, head_joints, head_pose) ==
  /\ act[t].pc \in {"idle", "returned"}
  /\ act' = [act EXCEPT ![t] =
       [@ EXCEPT !.pc = IF InputTooShort(head_joints, head_pose)
                          THEN "returned" ELSE "normalize",
                 !.ret = IF InputTooShort(head_joints, head_pose)
                           THEN (IF act[t].ret = <<>> THEN ZeroJoints ELSE act[t].ret)
                           ELSE <<>>,
                 !.head_joints = head_joints,
                 !.head_pose = head_pose,
                 !.trace = <<>>,
                 !.writes = NoWrites,
                 !.carry_leg = -1,
                 !.zero_div = FALSE]]
  /\ overlapped' = [u \in Threads |->
                      IF u = t THEN FALSE ELSE overlapped[u] \/ act[u].pc \in Computing]
  /\ memo' = [memo EXCEPT !.later = @ \/ memo.set]
  /\ UNCHANGED <<carry, statics, outsideSolve>>

\* Lines 238-241: the call with its arguments; the early return.
Call(t, head_joints, head_pose) ==
  /\ act[t].pc \in {"idle", "returned"}
  /\ act' = [act EXCEPT ![t] =
       [@ EXCEPT !.pc = IF InputTooShort(head_joints, head_pose)
                          THEN "returned" ELSE "normalize",
                 !.ret = IF InputTooShort(head_joints, head_pose)
                           THEN ZeroJoints ELSE <<>>,
                 !.head_joints = head_joints,
                 !.head_pose = head_pose,
                 !.trace = <<>>,
                 !.writes = NoWrites,
                 !.carry_leg = -1,
                 !.zero_div = FALSE]]
  /\ overlapped' = [u \in Threads |->
                      IF u = t THEN FALSE ELSE overlapped[u] \/ act[u].pc \in Computing]
  /\ memo' = [memo EXCEPT !.later = @ \/ memo.set]
  /\ UNCHANGED <<carry, statics, outsideSolve>>

\* Lines 243-289: the motors, the normalized pose, the correction rotations,
\* the zeroed output and the initial value of the two carried rotations.
Normalizer(t) ==
  /\ act[t].pc = "normalize"
  /\ act' = [act EXCEPT ![t] =
       [@ EXCEPT !.pc = "legs",
                 !.motors = get_motors,
                 !.pose = NormalizePose(act[t].head_joints, act[t].head_pose,
                                        statics.HEAD_Z_OFFSET),
                 !.passive_corrections =
                    PassiveCorrections(statics.PASSIVE_ORIENTATION_OFFSET),
                 !.passive_joints = ZeroJoints,
                 !.i = 0,
                 !.trace = Append(@, "normalize")]]
  /\ carry' = [carry EXCEPT ![CarrySlot(t)] = CarryAtEntry(@)]
  /\ Overlap(t)
  /\ UNCHANGED <<statics, memo, outsideSolve>>

\* Lines 292-375: one iteration of the loop over the motors.
LegCore(t) ==
  /\ act[t].pc = "legs"
  /\ act[t].i < Len(act[t].motors)
  /\ \E L \in {LegSolve(act[t].i, act[t].head_joints, act[t].pose,
                        Idx(act[t].motors, act[t].i), act[t].passive_corrections,
                        statics.STEWART_ROD_DIR_IN_PASSIVE_FRAME,
                        statics.MOTOR_ARM_LENGTH)} :
     \E euler \in {euler_from_rotation_xyz(L.r_servo_branch)} :
       LET i  == act[t].i
           at == [c \in 0..2 |-> OutputIndex(i, c) + 1]
       IN  /\ act' = [act EXCEPT ![t] =
                [@ EXCEPT !.passive_joints =
                             [@ EXCEPT ![at[0]] = euler[1],
                                       ![at[1]] = euler[2],
                                       ![at[2]] = euler[3]],
                          !.writes = [k \in 1..21 |->
                                        @[k] + Cardinality({c \in 0..2 : at[c] = k})],
                          !.i = i + 1,
                          !.pc = IF i + 1 < Len(act[t].motors) THEN "legs" ELSE "head",
                          !.trace = Append(@, StepNames[i + 1]),
                          !.zero_div = @ \/ L.norm_vec = 0]]
           /\ carry' = IF SaveCarry(i)
                         THEN [carry EXCEPT ![CarrySlot(t)] =
                                 [last_r_servo_branch |-> L.r_servo_branch,
                                  last_r_world_servo |-> L.r_world_servo,
                                  leg |-> i]]
                         ELSE carry
  /\ Overlap(t)
  /\ UNCHANGED <<memo, outsideSolve>>

\* A variant of Leg that clears the arm length after using it.
LegWritesTables(t) ==
  LegCore(t) /\ statics' = [statics EXCEPT !.MOTOR_ARM_LENGTH = 0]

\* The loop reads the tables and leaves them as they are.
Leg(t) == LegCore(t) /\ UNCHANGED statics

\* Lines 377-404: the 7th passive joint, and the return of the 21 angles.
HeadConnector(t) ==
  /\ act[t].pc = "head"
  /\ \E c \in {carry[CarrySlot(t)]} :
     \E euler_7 \in {HeadSolve(act[t].pose, statics.T_HEAD_XL_330,
                               c.last_r_world_servo, c.last_r_servo_branch,
                               act[t].passive_corrections)} :
     \E out \in {[act[t].passive_joints EXCEPT ![19] = euler_7[1],
                                               ![20] = euler_7[2],
                                               ![21] = euler_7[3]]} :
       act' = [act EXCEPT ![t] =
         [@ EXCEPT !.passive_joints = out,
                   !.writes = [k \in 1..21 |-> IF k >= 19 THEN @[k] + 1 ELSE @[k]],
                   !.carry_leg = c.leg,
                   !.ret = out,
                   !.pc = "returned",
                   !.trace = Append(@, "head")]]
  /\ Overlap(t)
  /\ UNCHANGED <<carry, statics, memo, outsideSolve>>

\* The caller keeps the result of the call thread t has just returned from,
\* once; memo.later records that a call has been made since.
Remember(t) ==
  /\ act[t].pc = "returned"
  /\ ~memo.set
  /\ memo' = [set |-> TRUE, later |-> FALSE, head_joints |-> act[t].head_joints,
              head_pose |-> act[t].head_pose, ret |-> act[t].ret]
  /\ UNCHANGED <<act, carry, statics, overlapped, outsideSolve>>

Step(t) == Normalizer(t) \/ Leg(t) \/ HeadConnector(t) \/ Remember(t)

\* One caller: calls follow one another.
Next ==
  \/ \E j \in JointSamples, p \in PoseSamples : Call(1, j, p)
  \/ Step(1)

Spec == Init /\ [][Next]_vars

\* The caller's thread keeps running: a step that stays possible is taken.
FairSpec == Spec /\ WF_vars(Step(1))

\* NumThreads callers, their calls interleaved step by step.
ConcNext ==
  \/ \E t \in Threads, j \in ConcurrentJoints : Call(t, j, IdentityPose)
  \/ \E t \in Threads : Step(t)

ConcSpec == Init /\ [][ConcNext]_vars

(***************************************************************************)
(* The two Euler conversions, one after the other, on a grid of angles.    *)
(***************************************************************************)
\* The angles are the multiples of GridStep from -GridN to GridN.
GridN == 4

GridStep == Scale \div 2

Grid == {k * GridStep : k \in -GridN..GridN}

EulerInit ==
  /\ SolveInit
  /\ al = AlignIdle
  /\ AppInit
  /\ eu \in {[stage |-> "angles", x |-> x, y |-> y, z |-> z, r |-> <<>>, out |-> <<>>] :
               x \in Grid, y \in Grid, z \in Grid}

ToMatrix ==
  /\ eu.stage = "angles"
  /\ eu' = [eu EXCEPT !.stage = "matrix", !.r = rotation_from_euler_xyz(eu.x, eu.y, eu.z)]
  /\ UNCHANGED outsideEuler

ToEuler ==
  /\ eu.stage = "matrix"
  /\ eu' = [eu EXCEPT !.stage = "euler", !.out = euler_from_rotation_xyz(eu.r)]
  /\ UNCHANGED outsideEuler

EulerNext == ToMatrix \/ ToEuler

EulerSpec == EulerInit /\ [][EulerNext]_vars

(***************************************************************************)
(* One call of euler_from_rotation_xyz on a matrix, case by case.          *)
(***************************************************************************)
\* Cosine and sine of angles the fixed-point numbers hold exactly.
ExactTurns ==
  {<<Scale, 0>>, <<0, Scale>>, <<-Scale, 0>>, <<0, -Scale>>,
   <<6000, 8000>>, <<8000, -6000>>, <<-6000, 8000>>, <<-8000, -6000>>}

\* The same, with the angles whose sine is next to the 0.99999 of line 171.
TurnsNearLock == ExactTurns \cup {<<141, 9999>>, <<141, -9999>>}

RotX(t) == Matrix3(Scale, 0, 0, 0, t[1], FNeg(t[2]), 0, t[2], t[1])

RotY(t) == Matrix3(t[1], 0, t[2], 0, Scale, 0, FNeg(t[2]), 0, t[1])

RotZ(t) == Matrix3(t[1], FNeg(t[2]), 0, t[2], t[1], 0, 0, 0, Scale)

\* The matrix m with the entry (0, 2) replaced.
WithSy(m, sy) == <<Vector3(m[1][1], m[1][2], sy), m[2], m[3]>>

\* Rotation matrices, the same with an entry (0, 2) that rounding has taken
\* past 1, and the matrix align_vectors returns for a direction that is not
\* a number.
ExtractMatrices ==
  {MatMul3(MatMul3(RotX(a), RotY(b)), RotZ(c)) :
     a \in ExactTurns, b \in TurnsNearLock, c \in ExactTurns}
    \cup {WithSy(RotY(<<0, Scale>>), Scale + 1), WithSy(RotY(<<0, -Scale>>), -Scale - 1)}
    \cup {Matrix3(NaN, NaN, NaN, NaN, NaN, NaN, NaN, NaN, NaN)}

ExtractInit ==
  /\ SolveInit
  /\ al = AlignIdle
  /\ AppInit
  /\ eu \in {[EulerIdle EXCEPT !.stage = "matrix", !.r = m] : m \in ExtractMatrices}

\* Lines 171-175: the regular case.
ExtractRegular ==
  /\ eu.stage = "matrix"
  /\ FLt5(FAbs(At(eu.r, 0, 2)), 99999)
  /\ eu' = [eu EXCEPT !.stage = "regular", !.out = euler_from_rotation_xyz(eu.r)]
  /\ UNCHANGED outsideEuler

\* Lines 176-185: gimbal lock.
ExtractGimbalLock ==
  /\ eu.stage = "matrix"
  /\ ~FLt5(FAbs(At(eu.r, 0, 2)), 99999)
  /\ eu' = [eu EXCEPT !.stage = "gimbal", !.out = euler_from_rotation_xyz(eu.r)]
  /\ UNCHANGED outsideEuler

ExtractNext == ExtractRegular \/ ExtractGimbalLock

ExtractSpec == ExtractInit /\ [][ExtractNext]_vars

(***************************************************************************)
(* One call of align_vectors, case by case.                                *)
(***************************************************************************)
\* The longest vector is MaxStretch times a unit vector.
MaxStretch == 2

Signs == {-1, 1}

\* Unit vectors whose coordinates the fixed-point numbers hold exactly: the
\* axes and the 3-4-5 directions.
ExactDirections ==
  {Vector3(a * Scale, 0, 0) : a \in Signs}
    \cup {Vector3(0, a * Scale, 0) : a \in Signs}
    \cup {Vector3(0, 0, a * Scale) : a \in Signs}
    \cup {Vector3(a * 6000, b * 8000, 0) : a \in Signs, b \in Signs}
    \cup {Vector3(a * 8000, b * 6000, 0) : a \in Signs, b \in Signs}
    \cup {Vector3(a * 6000, 0, b * 8000) : a \in Signs, b \in Signs}
    \cup {Vector3(a * 8000, 0, b * 6000) : a \in Signs, b \in Signs}
    \cup {Vector3(0, a * 6000, b * 8000) : a \in Signs, b \in Signs}
    \cup {Vector3(0, a * 8000, b * 6000) : a \in Signs, b \in Signs}

\* Directions next to the x axis, on both sides of the 0.001 of line 206.
NearXDirections ==
  {Vector3(a * Scale, 5, 0) : a \in Signs}
    \cup {Vector3(a * Scale, 0, 20) : a \in Signs}
    \cup {Vector3(a * Scale, 150, 0) : a \in Signs}

AlignVectors ==
  {VScale(d, k * Scale) : d \in ExactDirections \cup NearXDirections, k \in 1..MaxStretch}

AlignInit ==
  /\ SolveInit
  /\ eu = EulerIdle
  /\ AppInit
  /\ al \in {[AlignIdle EXCEPT !.stage = "vectors", !.from = from, !.to = to] :
               from \in AlignVectors, to \in AlignVectors}

\* Lines 192-195: both vectors normalized, and their dot product.
AlignEnter ==
  /\ al.stage = "vectors"
  /\ \E from_n \in {VNormalize(al.from)}, to_n \in {VNormalize(al.to)} :
       al' = [al EXCEPT !.stage = "compared", !.from_n = from_n, !.to_n = to_n,
                        !.dot = Dot(from_n, to_n)]
  /\ UNCHANGED outsideAlign

\* Lines 198-200: nearly parallel.
AlignParallel ==
  /\ al.stage = "compared"
  /\ AlignBranch(al.dot) = "parallel"
  /\ al' = [al EXCEPT !.stage = "aligned", !.branch = "parallel", !.r = Identity3]
  /\ UNCHANGED outsideAlign

\* Lines 203-215: nearly opposite.
AlignFlip ==
  /\ al.stage = "compared"
  /\ AlignBranch(al.dot) = "opposite"
  /\ \E perp \in {PerpendicularTo(al.from_n)} :
       al' = [al EXCEPT !.stage = "aligned", !.branch = "opposite",
                        !.perp_x = Cross(Vector3(Scale, 0, 0), al.from_n),
                        !.perp = perp,
                        !.axis = VNormalize(perp),
                        !.r = AlignOpposite(al.from_n)]
  /\ UNCHANGED outsideAlign

\* Lines 217-226: the general case.
AlignGeneral ==
  /\ al.stage = "compared"
  /\ AlignBranch(al.dot) = "general"
  /\ al' = [al EXCEPT !.stage = "aligned", !.branch = "general",
                      !.s = Norm(Cross(al.from_n, al.to_n)),
                      !.r = AlignRodrigues(al.from_n, al.to_n, al.dot)]
  /\ UNCHANGED outsideAlign

AlignNext == AlignEnter \/ AlignParallel \/ AlignFlip \/ AlignGeneral

AlignSpec == AlignInit /\ [][AlignNext]_vars

(***************************************************************************)
(* The local proxy (src-tauri/src/local_proxy.rs): set_target_host and     *)
(* clear_target_host on one LocalProxyState, called from NumCallers tasks  *)
(* of the runtime.  A step is what a call does between two awaits.         *)
(***************************************************************************)
Hosts == {"reachy-mini.local", "192.168.4.1"}

\* The calls, with caller c at pc, about to handle port k, having printed
\* said.
CallOf(c, pc, k, said) == [px.call EXCEPT ![c] = [pc |-> pc, k |-> k, said |-> said]]

\* A variant of AlreadyRunning that never finds the proxy running.
AlreadyRunningNever(handles) == FALSE

\* Line 47: start_local_proxy returns when there is a handle.
AlreadyRunning(handles) == handles # <<>>

\* Lines 307-313: the target host written under the write lock; the call
\* goes on to start_local_proxy.
SetTargetHost(c, host) ==
  /\ px.call[c].pc = "idle"
  /\ px' = [px EXCEPT !.target_host = <<host>>, !.call = CallOf(c, "start", 0, "")]
  /\ UNCHANGED outsideProxy

\* Lines 44-50: the Mutex taken; the return when the proxy is running.
StartLocalProxy(c) ==
  /\ px.call[c].pc = "start"
  /\ px.lock = 0
  /\ px' = IF AlreadyRunning(px.proxy_handles)
             THEN [px EXCEPT !.call = CallOf(c, "idle", 0, "already running")]
             ELSE [px EXCEPT !.lock = c, !.call = CallOf(c, "spawn", 0, "")]
  /\ UNCHANGED outsideProxy

\* Lines 52-62: a task spawned for the next port and its handle pushed; after
\* the last port the Mutex is released and the call returns.
SpawnPort(c) ==
  /\ px.call[c].pc = "spawn"
  /\ LET k    == px.call[c].k
         last == k + 1 = Len(PROXY_PORTS)
     IN  px' = [px EXCEPT
           !.proxy_handles = Append(@, [port |-> PROXY_PORTS[k + 1], task |-> "spawned"]),
           !.lock = IF last THEN 0 ELSE c,
           !.call = IF last THEN CallOf(c, "idle", 0, "started")
                            ELSE CallOf(c, "spawn", k + 1, "")]
  /\ UNCHANGED outsideProxy

\* Lines 81-97: a spawned task binds its port and listens, or ends when the
\* port cannot be bound.
PortBind(h, bound) ==
  /\ px.proxy_handles[h].task = "spawned"
  /\ px' = [px EXCEPT !.proxy_handles[h].task = IF bound THEN "listening" ELSE "ended"]
  /\ UNCHANGED outsideProxy

\* Lines 320-322: clear_target_host goes to stop_local_proxy first.
ClearTargetHost(c) ==
  /\ px.call[c].pc = "idle"
  /\ px' = [px EXCEPT !.call = CallOf(c, "stop", 0, "")]
  /\ UNCHANGED outsideProxy

\* Lines 65-69: the Mutex taken; the return when there is no handle.
StopLocalProxy(c) ==
  /\ px.call[c].pc = "stop"
  /\ px.lock = 0
  /\ px' = IF px.proxy_handles = <<>>
             THEN [px EXCEPT !.call = CallOf(c, "clear", 0, "")]
             ELSE [px EXCEPT !.lock = c, !.call = CallOf(c, "drain", 0, "")]
  /\ UNCHANGED outsideProxy

\* Lines 72-77: the next handle drained and its task aborted; after the last
\* one the Mutex is released.
AbortHandle(c) ==
  /\ px.call[c].pc = "drain"
  /\ LET last == Len(px.proxy_handles) = 1
     IN  px' = [px EXCEPT
           !.proxy_handles = Tail(@),
           !.lock = IF last THEN 0 ELSE c,
           !.call = IF last THEN CallOf(c, "clear", 0, "stopped")
                            ELSE CallOf(c, "drain", 0, "")]
  /\ UNCHANGED outsideProxy

\* Lines 325-327: the target host cleared under the write lock.
ClearWrite(c) ==
  /\ px.call[c].pc = "clear"
  /\ px' = [px EXCEPT !.target_host = <<>>, !.call = CallOf(c, "idle", 0, px.call[c].said)]
  /\ UNCHANGED outsideProxy

ProxyNext ==
  \/ \E c \in Callers, host \in Hosts : SetTargetHost(c, host)
  \/ \E c \in Callers : StartLocalProxy(c)
  \/ \E c \in Callers : SpawnPort(c)
  \/ \E h \in DOMAIN px.proxy_handles, bound \in BOOLEAN : PortBind(h, bound)
  \/ \E c \in Callers : ClearTargetHost(c)
  \/ \E c \in Callers : StopLocalProxy(c)
  \/ \E c \in Callers : AbortHandle(c)
  \/ \E c \in Callers : ClearWrite(c)

ProxySpec == Init /\ [][ProxyNext]_vars

(***************************************************************************)
(* The daemon and update_daemon (src-tauri/src/update/mod.rs, lines        *)
(* 336-409; src-tauri/src/lib.rs, lines 35-75).                            *)
(***************************************************************************)
\* The targets the application is built for (#[cfg(target_os = ...)]).
Platforms == {"windows", "macos", "linux"}

\* A variant of UpdateSteps that stops the daemon once pip has been found.
UpdateStepsStopLate == <<"venv", "pip_exists", "stop", "sleep", "pip_run">>

\* update_daemon, lines 344-380: the order of its steps.
UpdateSteps == <<"stop", "sleep", "venv", "pip_exists", "pip_run">>

\* kill_daemon, which start_daemon and stop_daemon call: the daemon process
\* is not running afterwards.
kill_daemon(daemon) == "stopped"

\* The call at its next step, or returned with ret.
UpdateGoesOn(step) ==
  [ud EXCEPT !.k = @ + 1, !.pc = UpdateSteps[ud.k + 1], !.trace = Append(@, step)]

UpdateReturns(step, ret) ==
  [ud EXCEPT !.k = 0, !.pc = "returned", !.ret = ret, !.trace = Append(@, step)]

UpdateInit ==
  /\ SolveInit
  /\ eu = EulerIdle
  /\ al = AlignIdle
  /\ px = ProxyIdle
  /\ ud \in {[UpdateIdle EXCEPT !.os = os] : os \in Platforms}
  /\ RestIdle

\* lib.rs, lines 35-63: start_daemon, called while no update is under way:
\* the daemons that exist are killed and the sidecar is spawned, or its
\* spawning fails.
StartDaemon(spawned) ==
  /\ ud.pc \in {"idle", "returned"}
  /\ ud' = [ud EXCEPT !.pc = "idle", !.ret = "", !.trace = <<>>,
                      !.daemon = IF spawned THEN "running" ELSE kill_daemon(@)]
  /\ UNCHANGED outsideUpdate

\* Lines 337-342: the call.
UpdateDaemon(pre_release) ==
  /\ ud.pc \in {"idle", "returned"}
  /\ ud' = [ud EXCEPT !.pc = UpdateSteps[1], !.k = 1, !.was = ud.daemon,
                      !.pre_release = pre_release, !.pip_path = "", !.args = <<>>,
                      !.ret = "", !.trace = <<>>]
  /\ UNCHANGED outsideUpdate

\* Line 346 and lib.rs, lines 66-75: stop_daemon, which always returns Ok.
StopDaemon ==
  /\ ud.pc = "stop"
  /\ ud' = [UpdateGoesOn("stop") EXCEPT !.daemon = kill_daemon(@)]
  /\ UNCHANGED outsideUpdate

\* Line 349: the wait of one second.
UpdateSleep ==
  /\ ud.pc = "sleep"
  /\ ud' = UpdateGoesOn("sleep")
  /\ UNCHANGED outsideUpdate

\* Lines 352-358: get_local_venv_path finds the venv or returns an error;
\* the path of pip in it.
GetVenv(found) ==
  /\ ud.pc = "venv"
  /\ ud' = IF found
             THEN [UpdateGoesOn("venv") EXCEPT
                     !.pip_path = IF ud.os = "windows" THEN ".venv/Scripts/pip.exe"
                                                       ELSE ".venv/bin/pip"]
             ELSE UpdateReturns("venv", "Err: venv not found")
  /\ UNCHANGED outsideUpdate

\* Lines 360-362.
PipExists(exists) ==
  /\ ud.pc = "pip_exists"
  /\ ud' = IF exists THEN UpdateGoesOn("pip_exists")
                     ELSE UpdateReturns("pip_exists", "Err: pip not found")
  /\ UNCHANGED outsideUpdate

\* Lines 368-407: pip install --upgrade reachy-mini, with --pre for a
\* pre-release; the three ways it ends.  The daemon is not started again.
RunPip(outcome) ==
  /\ ud.pc = "pip_run"
  /\ ud' = [UpdateReturns("pip_run",
              CASE outcome = "not run" -> "Err: failed to run pip"
                [] outcome = "failed"  -> "Err: pip update failed"
                [] outcome = "success" -> "Ok: daemon updated") EXCEPT
              !.args = <<"install", "--upgrade", "reachy-mini">>
                         \o (IF ud.pre_release THEN <<"--pre">> ELSE <<>>)]
  /\ UNCHANGED outsideUpdate

UpdateNext ==
  \/ \E spawned \in BOOLEAN : StartDaemon(spawned)
  \/ \E pre_release \in BOOLEAN : UpdateDaemon(pre_release)
  \/ StopDaemon
  \/ UpdateSleep
  \/ \E found \in BOOLEAN : GetVenv(found)
  \/ \E exists \in BOOLEAN : PipExists(exists)
  \/ \E outcome \in {"not run", "failed", "success"} : RunPip(outcome)

UpdateSpec == UpdateInit /\ [][UpdateNext]_vars

(***************************************************************************)
(* start_daemon, stop_daemon and the window events (lib.rs)                *)
(***************************************************************************)
\* The number of calls of start_daemon in a run.
MaxCalls == 3

\* Lines 44-48 and 56-60: the two log entries of start_daemon, for each mode.
CleanupMsg(sim_mode) ==
  IF sim_mode THEN "Cleaning up existing daemons (simulation mode)..."
              ELSE "Cleaning up existing daemons..."

SuccessMsg(sim_mode) ==
  IF sim_mode THEN "Daemon started in simulation mode (MuJoCo) via embedded sidecar"
              ELSE "Daemon started via embedded sidecar"

\* add_log: the entry is appended to the logs.
add_log(logs, entry) == Append(logs, entry)

\* A variant of StartSteps that spawns the sidecar before the cleanup.
StartStepsSpawnFirst == <<"spawn", "log_cleanup", "kill", "log_success">>

\* start_daemon, lines 43-63: the order of its steps.
StartSteps == <<"log_cleanup", "kill", "spawn", "log_success">>

\* kill_daemon on the DaemonState (lines 43 and 68: the local process and
\* the daemons of the system): no daemon is alive and no process is held.
KillDaemons(d) == [d EXCEPT !.process = <<>>, !.alive = {}]

\* cleanup_system_daemons, which takes no DaemonState: the daemons of the
\* system are killed (lines 187-190: by port 8000 and process name).
CleanupSystemDaemons(d) == [d EXCEPT !.alive = {}]

\* spawn_and_monitor_sidecar, when it succeeds: the new sidecar, which no
\* earlier call has spawned, is alive and held in process.
SpawnSidecar(d) ==
  [d EXCEPT !.process = <<d.calls>>, !.alive = @ \cup {d.calls}]

\* The call at its next step, if it has one.
StartGoesOn(d, step) ==
  IF d.k < Len(StartSteps)
    THEN [d EXCEPT !.k = @ + 1, !.pc = StartSteps[d.k + 1], !.trace = Append(@, step)]
    ELSE [d EXCEPT !.k = 0, !.pc = "returned", !.ret = "Ok: Daemon started successfully",
                   !.trace = Append(@, step)]

\* Lines 34-41: the call; in simulation mode a first entry is logged.
StartDaemonCall(sim_mode) ==
  /\ dm.pc \in {"idle", "returned"}
  /\ dm.calls < MaxCalls
  /\ dm' = [dm EXCEPT !.pc = StartSteps[1], !.k = 1, !.calls = @ + 1,
                      !.sim_mode = sim_mode, !.ret = "", !.trace = <<>>,
                      !.was_logs = dm.logs, !.was_alive = dm.alive, !.event = <<>>, !.did = <<>>,
                      !.logs = IF sim_mode
                                 THEN add_log(@, "Starting simulation mode (MuJoCo pre-bundled)...")
                                 ELSE @]
  /\ UNCHANGED outsideDaemon

\* Lines 44-49.
StartLogCleanup ==
  /\ dm.pc = "log_cleanup"
  /\ dm' = [StartGoesOn(dm, "log_cleanup") EXCEPT !.logs = add_log(@, CleanupMsg(dm.sim_mode))]
  /\ UNCHANGED outsideDaemon

\* Line 50.
StartKill ==
  /\ dm.pc = "kill"
  /\ dm' = KillDaemons(StartGoesOn(dm, "kill"))
  /\ UNCHANGED outsideDaemon

\* Line 53: the sidecar is spawned, or the error of the spawning is returned
\* by the ? operator.
StartSpawn(spawned) ==
  /\ dm.pc = "spawn"
  /\ dm' = IF spawned
             THEN SpawnSidecar(StartGoesOn(dm, "spawn"))
             ELSE [dm EXCEPT !.k = 0, !.pc = "returned", !.ret = "Err: spawn failed",
                             !.trace = Append(@, "spawn")]
  /\ UNCHANGED outsideDaemon

\* Lines 56-63.
StartLogSuccess ==
  /\ dm.pc = "log_success"
  /\ dm' = [StartGoesOn(dm, "log_success") EXCEPT !.logs = add_log(@, SuccessMsg(dm.sim_mode))]
  /\ UNCHANGED outsideDaemon

\* Lines 66-75: stop_daemon, which update_daemon calls from another thread
\* at any time.
StopDaemonCommand ==
  /\ dm.alive # {}
  /\ dm' = KillDaemons(dm)
  /\ UNCHANGED outsideDaemon

\* The sidecar ends by itself.
SidecarExits ==
  /\ \E p \in dm.alive : dm' = [dm EXCEPT !.alive = @ \ {p}]
  /\ UNCHANGED outsideDaemon

WindowLabels == {"main", "settings", "about"}

WindowEvents == {"CloseRequested", "Destroyed", "Focused"}

\* A variant of on_window_event that does not look at the label.
on_window_event_any_label(label, event) ==
  CASE event = "CloseRequested" -> <<"kill_daemon">>
    [] event = "Destroyed" -> <<"cleanup_system_daemons">>
    [] OTHER -> <<>>

\* Lines 158-181: what the handler of the window events calls.
on_window_event(label, event) ==
  CASE event = "CloseRequested" -> IF label = "main" THEN <<"kill_daemon">> ELSE <<>>
    [] event = "Destroyed" -> IF label = "main" THEN <<"cleanup_system_daemons">> ELSE <<>>
    [] OTHER -> <<>>

\* Lines 158-181: a window event, handled on the thread of the commands and
\* therefore between the calls of start_daemon.
WindowEvent(label, event) ==
  /\ dm.pc \in {"idle", "returned"}
  /\ <<label, event>> # dm.event
  /\ dm' = LET did == on_window_event(label, event)
               d == [dm EXCEPT !.event = <<label, event>>, !.did = did]
           IN  CASE did = <<"kill_daemon">> -> KillDaemons(d)
                 [] did = <<"cleanup_system_daemons">> -> CleanupSystemDaemons(d)
                 [] OTHER -> d
  /\ UNCHANGED outsideDaemon

DaemonNext ==
  \/ \E sim_mode \in BOOLEAN : StartDaemonCall(sim_mode)
  \/ StartLogCleanup
  \/ StartKill
  \/ \E spawned \in BOOLEAN : StartSpawn(spawned)
  \/ StartLogSuccess
  \/ StopDaemonCommand
  \/ SidecarExits
  \/ \E label \in WindowLabels, event \in WindowEvents : WindowEvent(label, event)

DaemonSpec == Init /\ [][DaemonNext]_vars

(***************************************************************************)
(* The wait loop of uv-trampoline on Unix (uv-trampoline.rs, 708-830)      *)
(***************************************************************************)
UnixPlatforms == {"linux", "macos"}

\* The exit codes of a child that exits, and none for one that a signal ends.
ChildStatuses == {<<0>>, <<3>>, <<255>>, <<>>}

\* ExitCode::FAILURE.
FAILURE == 1

\* Lines 740, 809 and 824: status.code().unwrap_or(1) as u8.
ExitCodeOf(status) == (IF status = <<>> THEN 1 ELSE status[1]) % 256

\* The trampoline at its next place, with what it has done added; the
\* rounds of the loop in which nothing happens are not recorded.
TrampolineAt(t, pc, done) == [t EXCEPT !.pc = pc, !.trace = Append(@, done)]

\* The trampoline returns code from main.
TrampolineExits(t, code, done) ==
  [t EXCEPT !.pc = "exited", !.exit_code = <<code>>, !.trace = Append(@, done)]

\* child.kill(): SIGKILL is sent to a child that has not terminated; the
\* result is not looked at.
KillChild(t) == [t EXCEPT !.kill_sent = @ \/ t.child = "running"]

TrampolineInit ==
  /\ SolveInit
  /\ eu = EulerIdle
  /\ al = AlignIdle
  /\ px = ProxyIdle
  /\ ud = UpdateIdle
  /\ dm = DaemonIdle
  /\ tr \in {t \in {[TrampolineIdle EXCEPT !.os = os, !.is_pip_install = pip] :
                       os \in UnixPlatforms, pip \in BOOLEAN} :
               t.is_pip_install => t.os = "macos"}
  /\ sv = SemverIdle
  /\ us = UsbIdle
  /\ ws = RelayIdle

\* Lines 708-714: cmd.spawn().
TrampolineSpawn(spawned) ==
  /\ tr.pc = "idle"
  /\ tr' = IF spawned THEN [TrampolineAt(tr, "register", "spawn") EXCEPT !.child = "running"]
                      ELSE TrampolineExits(tr, FAILURE, "spawn failed")
  /\ UNCHANGED outsideTrampoline

\* Lines 722-727: the handlers of the termination signals set term_now; a
\* failure to register one is only warned of.
RegisterSignals(registered) ==
  /\ tr.pc = "register"
  /\ tr' = [TrampolineAt(tr, "loop", "register") EXCEPT !.registered = registered]
  /\ UNCHANGED outsideTrampoline

\* A termination signal arrives: its handler sets term_now, and without a
\* handler it ends the trampoline.
TerminationSignal ==
  /\ tr.child # "none"
  /\ tr.pc \notin {"exited", "signalled"}
  /\ ~tr.term_now
  /\ tr' = IF tr.registered THEN [tr EXCEPT !.term_now = TRUE]
                            ELSE TrampolineAt(tr, "signalled", "signalled")
  /\ UNCHANGED outsideTrampoline

\* The child ends: by itself with one of the statuses, or by the SIGKILL
\* that was sent to it.
ChildEnds(status) ==
  /\ tr.child = "running"
  /\ tr.kill_sent => status = <<>>
  /\ tr' = [tr EXCEPT !.child = "terminated", !.status = status, !.own = ~tr.kill_sent]
  /\ UNCHANGED outsideTrampoline

\* Lines 730-736: the top of the loop.
LoopTop ==
  /\ tr.pc = "loop"
  /\ tr' = IF tr.term_now THEN KillChild(TrampolineAt(tr, "wait", "kill on signal"))
                          ELSE [tr EXCEPT !.pc = "try_wait"]
  /\ UNCHANGED outsideTrampoline

\* Lines 738-819: child.try_wait() and its three arms; on macOS the
\* binaries are signed again after a pip install that succeeded.
TryWait(failed) ==
  /\ tr.pc = "try_wait"
  /\ tr' = CASE failed -> KillChild(TrampolineExits(tr, FAILURE, "try_wait failed, kill"))
             [] ~failed /\ tr.child = "terminated" ->
                  [TrampolineExits(tr, ExitCodeOf(tr.status), "child exited") EXCEPT
                     !.resigned = tr.os = "macos" /\ tr.is_pip_install
                                    /\ (IF tr.status = <<>> THEN 1 ELSE tr.status[1]) = 0]
             [] OTHER -> [tr EXCEPT !.pc = "loop"]
  /\ UNCHANGED outsideTrampoline

\* Lines 822-829: child.wait() after the kill returns once the child has
\* terminated, or fails.
FinalWait(failed) ==
  /\ tr.pc = "wait"
  /\ ~failed => tr.child = "terminated"
  /\ tr' = IF failed THEN TrampolineExits(tr, FAILURE, "wait failed")
                     ELSE TrampolineExits(tr, ExitCodeOf(tr.status), "wait")
  /\ UNCHANGED outsideTrampoline

TrampolineNext ==
  \/ \E spawned \in BOOLEAN : TrampolineSpawn(spawned)
  \/ \E registered \in BOOLEAN : RegisterSignals(registered)
  \/ TerminationSignal
  \/ \E status \in ChildStatuses : ChildEnds(status)
  \/ LoopTop
  \/ \E failed \in BOOLEAN : TryWait(failed)
  \/ \E failed \in BOOLEAN : FinalWait(failed)

TrampolineSpec == TrampolineInit /\ [][TrampolineNext]_vars

(***************************************************************************)
(* The versions of PyPI and their order (update/mod.rs, 210-294)           *)
(***************************************************************************)
\* A string is the sequence of its characters; the bytes that a.cmp(b)
\* compares.
Ascii ==
  [c \in {"-", ".", "0", "1", "2", "3", "4", "5", "6", "7", "8", "9",
          "a", "b", "c", "e", "h", "l", "o", "p", "r", "s", "t"} |->
     CASE c = "-" -> 45 [] c = "." -> 46
       [] c = "0" -> 48 [] c = "1" -> 49 [] c = "2" -> 50 [] c = "3" -> 51
       [] c = "4" -> 52 [] c = "5" -> 53 [] c = "6" -> 54 [] c = "7" -> 55
       [] c = "8" -> 56 [] c = "9" -> 57
       [] c = "a" -> 97 [] c = "b" -> 98 [] c = "c" -> 99 [] c = "e" -> 101
       [] c = "h" -> 104 [] c = "l" -> 108 [] c = "o" -> 111 [] c = "p" -> 112
       [] c = "r" -> 114 [] c = "s" -> 115 [] c = "t" -> 116]

Digits == {"0", "1", "2", "3", "4", "5", "6", "7", "8", "9"}

\* Ordering::reverse.
Reverse(ord) == CASE ord = "Less" -> "Greater" [] ord = "Greater" -> "Less" [] OTHER -> "Equal"

NatCmp(m, n) == IF m < n THEN "Less" ELSE IF m > n THEN "Greater" ELSE "Equal"

\* str::cmp: the lexicographic order of the bytes.
RECURSIVE StrCmpFrom(_, _, _)
StrCmpFrom(a, b, i) ==
  IF i > Len(a) \/ i > Len(b) THEN NatCmp(Len(a), Len(b))
  ELSE IF a[i] # b[i] THEN NatCmp(Ascii[a[i]], Ascii[b[i]])
  ELSE StrCmpFrom(a, b, i + 1)

StrCmp(a, b) == StrCmpFrom(a, b, 1)

\* str::split: the pieces of s between the occurrences of sep.
RECURSIVE SplitFrom(_, _, _, _)
SplitFrom(s, sep, i, piece) ==
  IF i > Len(s) THEN <<piece>>
  ELSE IF i + Len(sep) - 1 <= Len(s) /\ SubSeq(s, i, i + Len(sep) - 1) = sep
         THEN <<piece>> \o SplitFrom(s, sep, i + Len(sep), <<>>)
         ELSE SplitFrom(s, sep, i + 1, Append(piece, s[i]))

Split(s, sep) == SplitFrom(s, sep, 1, <<>>)

\* str::contains.
Contains(s, sep) == Len(Split(s, sep)) > 1

\* The pieces joined again with sep between them.
RECURSIVE Join(_, _)
Join(pieces, sep) ==
  IF Len(pieces) = 0 THEN <<>>
  ELSE IF Len(pieces) = 1 THEN pieces[1]
  ELSE pieces[1] \o sep \o Join(Tail(pieces), sep)

IsDigits(s) == Len(s) > 0 /\ \A k \in DOMAIN s : s[k] \in Digits

\* A numeric identifier of semver: digits with no leading zero.
IsNumeric(s) == IsDigits(s) /\ (Len(s) = 1 \/ s[1] # "0")

RECURSIVE ToNat(_)
ToNat(s) == IF Len(s) = 0 THEN 0 ELSE 10 * ToNat(SubSeq(s, 1, Len(s) - 1)) + (Ascii[s[Len(s)]] - 48)

\* An identifier of a pre-release: letters, digits and hyphens, and no
\* leading zero when it is all digits.
IsIdentifier(s) == Len(s) > 0 /\ (IsDigits(s) => IsNumeric(s))

NoVersion == [ok |-> FALSE, major |-> 0, minor |-> 0, patch |-> 0, pre |-> <<>>]

\* semver::Version::parse: MAJOR.MINOR.PATCH, then a hyphen and the
\* identifiers of the pre-release, separated by dots.
semver_parse(s) ==
  LET cut  == Split(s, <<"-">>)
      core == Split(cut[1], <<".">>)
      rest == Join(Tail(cut), <<"-">>)
      pre  == IF Len(cut) = 1 THEN <<>> ELSE Split(rest, <<".">>)
  IN  IF /\ Len(core) = 3
         /\ \A k \in 1..3 : IsNumeric(core[k])
         /\ \A k \in DOMAIN pre : IsIdentifier(pre[k])
        THEN [ok |-> TRUE, major |-> ToNat(core[1]), minor |-> ToNat(core[2]),
              patch |-> ToNat(core[3]), pre |-> pre]
        ELSE NoVersion

\* Lines 246-278: the patch part cut at a marker of PyPI, and the version
\* written the way semver writes it.
CleanVersion(parts, marker, name) ==
  LET cut == Split(parts[3], marker)
  IN  semver_parse(parts[1] \o <<".">> \o parts[2] \o <<".">> \o cut[1]
                     \o <<"-">> \o name \o <<".">> \o cut[2])

\* Lines 229-281.
parse_version(version_str) ==
  LET parts == Split(version_str, <<".">>)
      patch_part == parts[3]
      Cut(marker) == Contains(patch_part, marker) /\ Len(Split(patch_part, marker)) = 2
  IN  IF semver_parse(version_str).ok THEN semver_parse(version_str)
      ELSE IF Len(parts) < 3 THEN NoVersion
      ELSE IF Cut(<<"r", "c">>) THEN CleanVersion(parts, <<"r", "c">>, <<"r", "c">>)
      ELSE IF Cut(<<"a">>) THEN CleanVersion(parts, <<"a">>, <<"a", "l", "p", "h", "a">>)
      ELSE IF Cut(<<"b">>) THEN CleanVersion(parts, <<"b">>, <<"b", "e", "t", "a">>)
      ELSE NoVersion

\* The order of two identifiers of a pre-release: numbers by value and
\* before the others, the others as strings.
IdentifierCmp(x, y) ==
  IF IsDigits(x) /\ IsDigits(y) THEN NatCmp(ToNat(x), ToNat(y))
  ELSE IF IsDigits(x) THEN "Less"
  ELSE IF IsDigits(y) THEN "Greater"
  ELSE StrCmp(x, y)

RECURSIVE PreCmpFrom(_, _, _)
PreCmpFrom(p, q, i) ==
  IF i > Len(p) \/ i > Len(q) THEN NatCmp(Len(p), Len(q))
  ELSE IF IdentifierCmp(p[i], q[i]) # "Equal" THEN IdentifierCmp(p[i], q[i])
  ELSE PreCmpFrom(p, q, i + 1)

\* Version::cmp: major, minor and patch, then the pre-release, and a
\* version without one is the greater.
VersionCmp(va, vb) ==
  IF va.major # vb.major THEN NatCmp(va.major, vb.major)
  ELSE IF va.minor # vb.minor THEN NatCmp(va.minor, vb.minor)
  ELSE IF va.patch # vb.patch THEN NatCmp(va.patch, vb.patch)
  ELSE IF va.pre = <<>> /\ vb.pre = <<>> THEN "Equal"
  ELSE IF va.pre = <<>> THEN "Greater"
  ELSE IF vb.pre = <<>> THEN "Less"
  ELSE PreCmpFrom(va.pre, vb.pre, 1)

\* Lines 285-294.
compare_semver(a, b) ==
  IF parse_version(a).ok /\ parse_version(b).ok
    THEN VersionCmp(parse_version(a), parse_version(b))
    ELSE StrCmp(a, b)

\* The number of releases that PyPI lists.
MaxReleases == 3

\* Version strings of PyPI: "1.9.0", "1.10.0", "1.5", "1.2.5", "1.2.5rc1",
\* "1.2.5-rc.1", "1.2.5a1", "1.2.5b2" and "1.2.5.post1".
ReleasePool ==
  {<<"1", ".", "9", ".", "0">>,
   <<"1", ".", "1", "0", ".", "0">>,
   <<"1", ".", "5">>,
   <<"1", ".", "2", ".", "5">>,
   <<"1", ".", "2", ".", "5", "r", "c", "1">>,
   <<"1", ".", "2", ".", "5", "-", "r", "c", ".", "1">>,
   <<"1", ".", "2", ".", "5", "a", "1">>,
   <<"1", ".", "2", ".", "5", "b", "2">>,
   <<"1", ".", "2", ".", "5", ".", "p", "o", "s", "t", "1">>}

\* compare_semver on the version strings of the pool.
ComparedPool == [a \in ReleasePool, b \in ReleasePool |-> compare_semver(a, b)]

Compared(a, b) == ComparedPool[a, b]

\* The orders in which the keys of a HashMap can come.
KeyOrders(S) ==
  {f \in [1..Cardinality(S) -> S] : \A i, j \in 1..Cardinality(S) : f[i] = f[j] => i = j}

\* The comparator orders the strings of v as a sort needs it to.
TotalOn(v) ==
  \A i, j, k \in DOMAIN v :
    /\ Compared(v[i], v[j]) = Reverse(Compared(v[j], v[i]))
    /\ Compared(v[i], v[j]) # "Greater" /\ Compared(v[j], v[k]) # "Greater"
         => Compared(v[i], v[k]) # "Greater"
    /\ Compared(v[i], v[j]) = "Equal" /\ Compared(v[j], v[k]) = "Less"
         => Compared(v[i], v[k]) = "Less"

\* x put into the sorted v, after the entries that are not greater.
RECURSIVE InsertSorted(_, _)
InsertSorted(v, x) ==
  IF Len(v) = 0 THEN <<x>>
  ELSE IF Compared(x, v[Len(v)]) = "Less"
         THEN Append(InsertSorted(SubSeq(v, 1, Len(v) - 1), x), v[Len(v)])
         ELSE Append(v, x)

RECURSIVE InsertionSort(_)
InsertionSort(v) ==
  IF Len(v) = 0 THEN <<>> ELSE InsertSorted(InsertionSort(SubSeq(v, 1, Len(v) - 1)), v[Len(v)])

\* Line 213: slice::sort_by is stable; with a comparator that is not a total
\* order the order of the result is unspecified and the call may panic.
SortOutcomes(v) ==
  IF TotalOn(v) THEN {InsertionSort(v)}
  ELSE KeyOrders({v[k] : k \in DOMAIN v}) \cup {<<"panic">>}

\* Lines 193-208: the answer of PyPI, with the releases it lists and the
\* stable version of its info.
FetchPyPi(releases, info_version, pre_release) ==
  /\ sv.pc = "idle"
  /\ info_version \in releases
  /\ sv' = [SemverIdle EXCEPT !.pc = "fetched", !.pre_release = pre_release,
                              !.releases = releases, !.info_version = info_version]
  /\ UNCHANGED outsideSemver

\* Lines 221-225: the stable channel.
ReturnStable ==
  /\ sv.pc = "fetched"
  /\ ~sv.pre_release
  /\ sv' = [sv EXCEPT !.pc = "returned", !.ret = <<"Ok", sv.info_version>>]
  /\ UNCHANGED outsideSemver

\* Line 212: the keys of the releases, in the order of the HashMap.
CollectVersions(order) ==
  /\ sv.pc = "fetched"
  /\ sv.pre_release
  /\ order \in KeyOrders(sv.releases)
  /\ sv' = [sv EXCEPT !.pc = "collected", !.versions = order]
  /\ UNCHANGED outsideSemver

\* Line 213.
SortVersions(sorted) ==
  /\ sv.pc = "collected"
  /\ sorted \in SortOutcomes(sv.versions)
  /\ sv' = IF sorted = <<"panic">> THEN [sv EXCEPT !.pc = "panicked"]
                                   ELSE [sv EXCEPT !.pc = "sorted", !.versions = sorted]
  /\ UNCHANGED outsideSemver

\* Lines 215-220: the last of the sorted versions.
ReturnLatest ==
  /\ sv.pc = "sorted"
  /\ sv' = [sv EXCEPT !.pc = "returned",
                      !.ret = IF Len(sv.versions) > 0
                                THEN <<"Ok", sv.versions[Len(sv.versions)]>>
                                ELSE <<"Err", "No versions found on PyPI">>]
  /\ UNCHANGED outsideSemver

SemverNext ==
  \/ \E releases \in SUBSET ReleasePool, pre_release \in BOOLEAN :
       /\ Cardinality(releases) \in 1..MaxReleases
       /\ \E info_version \in releases : FetchPyPi(releases, info_version, pre_release)
  \/ ReturnStable
  \/ sv.pc = "fetched" /\ \E order \in KeyOrders(sv.releases) : CollectVersions(order)
  \/ sv.pc = "collected" /\ \E sorted \in SortOutcomes(sv.versions) : SortVersions(sorted)
  \/ ReturnLatest

SemverSpec == Init /\ [][SemverNext]_vars

(***************************************************************************)
(* The USB monitor (usb/monitor.rs, 14-126)                                *)
(***************************************************************************)
\* The number of serial ports of the machine.
MaxPorts == 2

\* Line 40: 0x1a86 and 0x55d3, the CH340 of Reachy Mini.
ReachyVid == 6790

ReachyPid == 21971

\* Lines 104-105.
DBT_DEVICEARRIVAL == 32768

DBT_DEVICEREMOVECOMPLETE == 32772

\* Serial ports: two of Reachy Mini, one with its VID only, one with its
\* PID only, and two that are not USB ports, one of them with both numbers.
PortPool ==
  {[port_name |-> "COM3", port_type |-> "UsbPort", vid |-> ReachyVid, pid |-> ReachyPid],
   [port_name |-> "COM4", port_type |-> "UsbPort", vid |-> ReachyVid, pid |-> ReachyPid],
   [port_name |-> "COM5", port_type |-> "UsbPort", vid |-> ReachyVid, pid |-> 29987],
   [port_name |-> "COM6", port_type |-> "UsbPort", vid |-> 1027, pid |-> ReachyPid],
   [port_name |-> "COM7", port_type |-> "BluetoothPort", vid |-> ReachyVid, pid |-> ReachyPid],
   [port_name |-> "COM1", port_type |-> "Unknown", vid |-> 0, pid |-> 0]}

\* What serialport::available_ports() can list.
Enumerations ==
  UNION {{f \in [1..n -> PortPool] : \A i, j \in 1..n : f[i] = f[j] => i = j} : n \in 0..MaxPorts}

\* Lines 39-43: the closure of find_map.
IsReachy(port) == port.port_type = "UsbPort" /\ port.vid = ReachyVid /\ port.pid = ReachyPid

\* Lines 37-45: Iterator::find_map, the name of the first port that is
\* Reachy Mini's.
RECURSIVE FindReachy(_, _)
FindReachy(ports, i) ==
  IF i > Len(ports) THEN <<>>
  ELSE IF IsReachy(ports[i]) THEN <<ports[i].port_name>>
  ELSE FindReachy(ports, i + 1)

\* A variant of update that forgets the ports when the enumeration fails.
update_or_clear(state, result) ==
  IF result[1] = "Ok"
    THEN [state EXCEPT !.available_ports = result[2], !.reachy_port = FindReachy(result[2], 1)]
    ELSE [state EXCEPT !.available_ports = <<>>, !.reachy_port = <<>>]

\* Lines 31-51: UsbMonitorState::update with the result of the enumeration.
update(state, result) ==
  IF result[1] = "Ok"
    THEN [state EXCEPT !.available_ports = result[2], !.reachy_port = FindReachy(result[2], 1)]
    ELSE state

\* The state after the update, and what the enumeration gave.
UpdatedWith(result) ==
  [update(us, result) EXCEPT !.last = result[1], !.enumerated = result[2]]

EnumerationResults == {<<"Ok", ports>> : ports \in Enumerations} \cup {<<"Err", <<>>>>}

\* Lines 101-126: wnd_proc; a device that arrived or was removed updates the
\* state, WM_DESTROY ends the loop of messages.
wnd_proc(msg, event, result) ==
  /\ us.monitor = "running"
  /\ us' = CASE msg = "WM_DEVICECHANGE" /\ event \in {DBT_DEVICEARRIVAL, DBT_DEVICEREMOVECOMPLETE} ->
                  [UpdatedWith(result) EXCEPT !.msg = <<msg, event>>]
             [] msg = "WM_DEVICECHANGE" -> [us EXCEPT !.msg = <<msg, event>>, !.last = "none"]
             [] msg = "WM_DESTROY" -> [us EXCEPT !.msg = <<msg>>, !.monitor = "quit", !.last = "none"]
             [] OTHER -> [us EXCEPT !.msg = <<msg>>, !.last = "none"]
  /\ UNCHANGED outsideUsb

\* Lines 90-97.
force_update(result) ==
  /\ us' = [UpdatedWith(result) EXCEPT !.msg = <<>>]
  /\ UNCHANGED outsideUsb

UsbNext ==
  \/ \E event \in {DBT_DEVICEARRIVAL, DBT_DEVICEREMOVECOMPLETE}, result \in EnumerationResults :
       wnd_proc("WM_DEVICECHANGE", event, result)
  \/ \E event \in {7, 24} : wnd_proc("WM_DEVICECHANGE", event, <<"Err", <<>>>>)
  \/ \E msg \in {"WM_DESTROY", "WM_PAINT"} : wnd_proc(msg, 0, <<"Err", <<>>>>)
  \/ \E result \in EnumerationResults : force_update(result)

UsbSpec == Init /\ [][UsbNext]_vars

(***************************************************************************)
(* The WebSocket relay (local_proxy.rs, 152-243)                           *)
(***************************************************************************)
\* The number of messages that one direction sends on.
MaxMessages == 2

\* What a read of a WebSocket gives: a message, an error, or the end of the
\* stream.
ReadItems == {<<"Ok", "Text">>, <<"Ok", "Binary">>, <<"Ok", "Close">>, <<"Err">>, <<"None">>}

\* Message::is_close.
is_close(msg) == msg = "Close"

\* The futures that have run to their end.
Finished(dir) == {d \in Directions : dir[d].pc = "done"}

\* A variant of SelectCompletes that waits for both futures.
JoinCompletes(dir) == Finished(dir) = Directions

\* Lines 237-240: tokio::select! completes with the first future that does,
\* and drops the other.
SelectCompletes(dir) == Finished(dir) # {}

\* Lines 166-176: the handshake with the local client; its error is
\* returned.
AcceptLocal(accepted) ==
  /\ ws.stage = "accept"
  /\ ws' = IF accepted THEN [ws EXCEPT !.stage = "connect"]
                       ELSE [ws EXCEPT !.stage = "returned", !.ret = "Err: handshake"]
  /\ UNCHANGED outsideRelay

\* Lines 186-202: the connection to the remote; when it fails a close frame
\* with CloseCode::Error goes to the local client, else both futures start.
ConnectRemote(connected) ==
  /\ ws.stage = "connect"
  /\ ws' = IF connected
             THEN [ws EXCEPT !.stage = "relay",
                             !.dir = [d \in Directions |-> [pc |-> "next", msg |-> <<>>, why |-> ""]]]
             ELSE [ws EXCEPT !.stage = "returned", !.ret = "Err: remote connection failed",
                             !.close_frame = <<"Error">>]
  /\ UNCHANGED outsideRelay

\* Lines 206-211, 216 and 222-227, 232: the next item of the read half.
RelayRead(d, item) ==
  /\ ws.stage = "relay"
  /\ ~SelectCompletes(ws.dir)
  /\ ws.dir[d].pc = "next"
  /\ item[1] = "Ok" /\ ~is_close(item[2]) => Len(ws.sent[d]) < MaxMessages
  /\ ws' = CASE item[1] = "None" -> [ws EXCEPT !.dir[d] = [pc |-> "done", msg |-> <<>>, why |-> "stream ended"]]
             [] item[1] = "Err" -> [ws EXCEPT !.dir[d] = [pc |-> "done", msg |-> <<>>, why |-> "read error"]]
             [] is_close(item[2]) -> [ws EXCEPT !.dir[d] = [pc |-> "done", msg |-> <<item[2]>>, why |-> "close"]]
             [] OTHER -> [ws EXCEPT !.dir[d] = [pc |-> "send", msg |-> <<item[2]>>, why |-> ""]]
  /\ UNCHANGED outsideRelay

\* Lines 212-214 and 228-230: the message goes to the write half of the
\* other side, or the send fails.
RelaySend(d, sent) ==
  /\ ws.stage = "relay"
  /\ ~SelectCompletes(ws.dir)
  /\ ws.dir[d].pc = "send"
  /\ ws' = IF sent
             THEN [ws EXCEPT !.sent[d] = Append(@, ws.dir[d].msg[1]),
                             !.dir[d] = [pc |-> "next", msg |-> <<>>, why |-> ""]]
             ELSE [ws EXCEPT !.dir[d] = [pc |-> "done", msg |-> ws.dir[d].msg, why |-> "send failed"]]
  /\ UNCHANGED outsideRelay

\* Lines 237-242: select! has completed; the future that is left is dropped
\* where it stands and Ok is returned.
RelayReturns ==
  /\ ws.stage = "relay"
  /\ SelectCompletes(ws.dir)
  /\ ws' = [ws EXCEPT !.stage = "returned", !.ret = "Ok"]
  /\ UNCHANGED outsideRelay

RelayNext ==
  \/ \E accepted \in BOOLEAN : AcceptLocal(accepted)
  \/ \E connected \in BOOLEAN : ConnectRemote(connected)
  \/ \E d \in Directions, item \in ReadItems : RelayRead(d, item)
  \/ \E d \in Directions, sent \in BOOLEAN : RelaySend(d, sent)
  \/ RelayReturns

RelaySpec == Init /\ [][RelayNext]_vars

(***************************************************************************)
(* Properties of calculate_passive_joints                                  *)
(***************************************************************************)
IsZeros(v) == Len(v) = 21 /\ \A k \in 1..21 : v[k] = 0

FullTrace == <<"normalize", "leg0", "leg1", "leg2", "leg3", "leg4", "leg5", "head">>

IsPrefix(s, t) == Len(s) <= Len(t) /\ \A k \in 1..Len(s) : s[k] = t[k]

\* Thread t's call was made with fewer than 7 joints or 16 pose entries.
Short(t) == Len(act[t].head_joints) < 7 \/ Len(act[t].head_pose) < 16

\* Thread t's call has returned after going through the computation.
Computed(t) == act[t].pc = "returned" /\ ~Short(t)

\* Leg i of thread t's call, computed from the call's own inputs.
LegOf(t, i) ==
  LegSolve(i, act[t].head_joints, act[t].pose, Idx(get_motors, i),
           act[t].passive_corrections, STEWART_ROD_DIR_IN_PASSIVE_FRAME,
           MOTOR_ARM_LENGTH)

LegEulerOf(t, i) == euler_from_rotation_xyz(LegOf(t, i).r_servo_branch)

HeadEulerFrom(t, L) ==
  HeadSolve(act[t].pose, T_HEAD_XL_330, L.r_world_servo, L.r_servo_branch,
            act[t].passive_corrections)

\* C1: a call with fewer than 7 joints or fewer than 16 pose entries returns
\* exactly 21 zeros, and none of the normalizer, the legs and the head
\* connector has run or written anything.
FallbackOnShortInput ==
  \A t \in Threads :
    (act[t].pc # "idle" /\ Short(t)) =>
      /\ act[t].pc = "returned"
      /\ IsZeros(act[t].ret)
      /\ act[t].trace = <<>>
      /\ \A k \in 1..21 : act[t].writes[k] = 0

\* A call with 6 joints and 16 pose entries, made after a call that computed,
\* has returned 21 zeros.
FallbackWitness ==
  /\ act[1].pc = "returned"
  /\ Len(act[1].head_joints) = 6
  /\ Len(act[1].head_pose) = 16
  /\ act[1].motors # <<>>
  /\ IsZeros(act[1].ret)
  /\ act[1].trace = <<>>

\* C2, as stated: a call whose joints are not exactly 7 or whose pose is not
\* exactly 16 entries, shorter or longer, returns the 21 zeros.
WrongLengthYieldsZeros ==
  \A t \in Threads :
    (act[t].pc = "returned"
       /\ (Len(act[t].head_joints) # 7 \/ Len(act[t].head_pose) # 16))
      => IsZeros(act[t].ret)

\* C2, amended: the 21 zeros are returned when an input is shorter than 7 or
\* 16; a call with at least 7 joints and 16 pose entries, longer ones
\* included, runs all the steps and returns what the first 7 joints and the
\* first 16 pose entries compute.
ZerosOnlyWhenShort ==
  \A t \in Threads :
    act[t].pc = "returned" =>
      IF Short(t)
        THEN IsZeros(act[t].ret)
        ELSE /\ act[t].trace = FullTrace
             /\ act[t].ret = SolveComputed(SubSeq(act[t].head_joints, 1, 7),
                                           SubSeq(act[t].head_pose, 1, 16))

\* A call with 8 joints and 17 pose entries has returned angles that are not
\* all zero.
LongInputWitness ==
  /\ act[1].pc = "returned"
  /\ Len(act[1].head_joints) = 8
  /\ Len(act[1].head_pose) = 17
  /\ act[1].trace = FullTrace
  /\ ~IsZeros(act[1].ret)

\* C3: every call returns exactly 21 scalars; in a call that computes, the
\* angles of leg i are at positions 3i, 3i+1, 3i+2, those of the head
\* connector at 18, 19, 20, and every position is written exactly once (no
\* position twice while the call runs, each once when it returns).
OutputLayout ==
  \A t \in Threads :
    /\ act[t].pc = "returned" => Len(act[t].ret) = 21
    /\ act[t].pc \in Computing => \A k \in 1..21 : act[t].writes[k] <= 1
    /\ act[t].pc \in {"legs", "head"} =>
         \A k \in 1..21 : act[t].writes[k] = IF k <= 3 * act[t].i THEN 1 ELSE 0
    /\ Computed(t) =>
         /\ \A k \in 1..21 : act[t].writes[k] = 1
         /\ \A i \in 0..5 :
              <<act[t].ret[3 * i + 1], act[t].ret[3 * i + 2], act[t].ret[3 * i + 3]>>
                = LegEulerOf(t, i)
         /\ <<act[t].ret[19], act[t].ret[20], act[t].ret[21]>>
              = HeadEulerFrom(t, LegOf(t, 5))

\* A call has returned 21 angles, each written once, those of leg 0 different
\* from those of leg 1 and from those of the head connector.
LayoutWitness ==
  /\ Computed(1)
  /\ Len(act[1].ret) = 21
  /\ \A k \in 1..21 : act[1].writes[k] = 1
  /\ LegEulerOf(1, 0) # LegEulerOf(1, 1)
  /\ <<act[1].ret[1], act[1].ret[2], act[1].ret[3]>> = LegEulerOf(1, 0)
  /\ <<act[1].ret[19], act[1].ret[20], act[1].ret[21]>> # LegEulerOf(1, 0)

\* C4: a call returns what an earlier call with the same joints and pose
\* returned, whatever calls were made before either of them.
SameInputsSameOutput ==
  \A t \in Threads :
    (memo.set /\ act[t].pc = "returned"
       /\ act[t].head_joints = memo.head_joints
       /\ act[t].head_pose = memo.head_pose)
      => act[t].ret = memo.ret

\* A call made after the remembered one, with the same joints and pose, has
\* returned the same angles, not all zero.
RepeatWitness ==
  /\ memo.set /\ memo.later
  /\ Computed(1)
  /\ act[1].head_joints = memo.head_joints
  /\ act[1].head_pose = memo.head_pose
  /\ act[1].ret = memo.ret
  /\ ~IsZeros(act[1].ret)

\* The steps a call has taken are the first steps of: the normalizer, legs
\* 0 to 5 in this order, the head connector; a call that has returned after
\* computing has taken them all, and its head connector has used the two
\* rotations of leg 5 of the same call.
StepsInOrder ==
  \A t \in Threads :
    /\ IsPrefix(act[t].trace, FullTrace)
    /\ act[t].pc = "legs" => Len(act[t].trace) = act[t].i + 1 /\ act[t].i < 6
    /\ act[t].pc = "head" =>
         /\ Len(act[t].trace) = 7
         /\ carry[t].leg = 5
         /\ carry[t].last_r_servo_branch = LegOf(t, 5).r_servo_branch
         /\ carry[t].last_r_world_servo = LegOf(t, 5).r_world_servo
    /\ Computed(t) => act[t].trace = FullTrace /\ act[t].carry_leg = 5

\* A call that is computing returns.
CallTerminates == (act[1].pc \in Computing) ~> (act[1].pc = "returned")

\* C5: in one call the normalizer runs once before any leg, the legs run once
\* each for indices 0 to 5 in this order, the head connector runs once after
\* them with the two rotations of leg 5 of the same call, and the call
\* returns.
OrderedStepsThenReturn == []StepsInOrder /\ CallTerminates

\* A second call has returned after its 8 steps, its head connector having
\* used the rotations of its leg 5.
OrderWitness ==
  /\ memo.later
  /\ Computed(1)
  /\ act[1].trace = FullTrace
  /\ act[1].carry_leg = 5
  /\ carry[1].leg = 5
  /\ carry[1].last_r_servo_branch = LegOf(1, 5).r_servo_branch
  /\ carry[1].last_r_servo_branch # LegOf(1, 4).r_servo_branch

\* The two carried rotations as line 285 and line 286 initialise them.
FreshCarry(c) ==
  /\ c.last_r_servo_branch = Identity3
  /\ c.last_r_world_servo = Identity3
  /\ c.leg = -1

\* C6: nothing survives from one call to the next: when the loop of a call
\* starts, the two carried rotations are the identity again and the output is
\* all zeros with nothing written, whatever the call before left; and what a
\* call returns is what its inputs alone compute.
NoStateSurvives ==
  \A t \in Threads :
    /\ (act[t].pc = "legs" /\ act[t].i = 0) =>
         /\ FreshCarry(carry[t])
         /\ IsZeros(act[t].passive_joints)
         /\ \A k \in 1..21 : act[t].writes[k] = 0
    /\ act[t].pc = "returned" =>
         act[t].ret = calculate_passive_joints(act[t].head_joints, act[t].head_pose)

\* A call made after a remembered call with other inputs, which had computed
\* angles, has returned what its own inputs compute, and not what the
\* remembered call returned.
FreshCallWitness ==
  /\ memo.set /\ memo.later
  /\ ~IsZeros(memo.ret)
  /\ Computed(1)
  /\ act[1].head_joints # memo.head_joints
  /\ act[1].ret # memo.ret
  /\ act[1].ret = calculate_passive_joints(act[1].head_joints, act[1].head_pose)

\* What a call returns is what its inputs compute when it runs alone.
ReturnsAsAlone ==
  \A t \in Threads :
    act[t].pc = "returned" =>
      act[t].ret = calculate_passive_joints(act[t].head_joints, act[t].head_pose)

\* A step that changes a thread's activation leaves every other thread's
\* activation and carried rotations, and the tables, as they were.
StepIsLocal ==
  /\ \A u, v \in Threads :
       (u # v /\ act'[u] # act[u]) => (act'[v] = act[v] /\ carry'[v] = carry[v])
  /\ \A u \in Threads : carry'[u] # carry[u] => act'[u] # act[u]
  /\ statics' = statics

\* C7: calls that run at the same time, their steps interleaved in any way,
\* each return what they return when run alone, and no step of one call
\* writes the pose, the output or the carried rotations of another.
ConcurrentCallsIsolated == []ReturnsAsAlone /\ [][StepIsLocal]_vars

\* A call has returned its own angles although the other thread, computing
\* on other joints, stepped while it ran and has kept its leg 5's rotations.
OverlapWitness ==
  /\ Computed(1)
  /\ overlapped[1]
  /\ act[2].pc = "returned"
  /\ overlapped[2]
  /\ act[2].head_joints # act[1].head_joints
  /\ carry[2].leg = 5
  /\ carry[2] # carry[1]
  /\ act[1].ret = calculate_passive_joints(act[1].head_joints, act[1].head_pose)
  /\ act[1].ret # act[2].ret

NoNaN(v) == \A k \in DOMAIN v : ~IsNaN(v[k])

\* C8, as stated: a leg whose vector from the servo arm to the branch has
\* length zero is not divided by that length, and no angle that is not a
\* number is computed or returned.
DegenerateLegGuarded ==
  \A t \in Threads :
    /\ ~act[t].zero_div
    /\ act[t].pc \in {"legs", "head"} => NoNaN(act[t].passive_joints)
    /\ act[t].pc = "returned" => NoNaN(act[t].ret)

\* C9: the tables hold the values they were given at the start, in every
\* state of every sequence of calls, and every call in progress has read the
\* same leg geometries and the same joint corrections from them.
TablesNeverChange ==
  /\ statics = StaticTables
  /\ \A t \in Threads :
       act[t].pc \in {"legs", "head"} =>
         /\ act[t].motors = get_motors
         /\ act[t].passive_corrections = PassiveCorrections(PASSIVE_ORIENTATION_OFFSET)

\* A call made after an earlier call that computed is past its loop, which
\* has read the tables six times, and the tables are as at the start.
TablesWitness ==
  /\ memo.later
  /\ ~IsZeros(memo.ret)
  /\ act[1].pc = "head"
  /\ act[1].motors = get_motors
  /\ statics = StaticTables

(***************************************************************************)
(* Properties of the two Euler conversions                                 *)
(***************************************************************************)
\* The tolerance of the comparisons: 0.01, as in the tests (line 434).
Tol == Scale \div 100

Near(a, b) == ~IsNaN(a) /\ ~IsNaN(b) /\ a - b <= Tol /\ b - a <= Tol

\* |sin(y)| < 0.99
SinBelowLimit(y) == 100 * FAbs(Sin(y)) < 99 * Scale

\* The angles extracted are the angles the matrix was built from.
Reconstructed ==
  /\ Near(eu.out[1], eu.x)
  /\ Near(eu.out[2], eu.y)
  /\ Near(eu.out[3], eu.z)

\* C10, as stated: for every triple (x, y, z) with |sin(y)| < 0.99 the angles
\* extracted from the matrix built from the triple are the triple.
EulerRoundTrip ==
  (eu.stage = "euler" /\ SinBelowLimit(eu.y)) => Reconstructed

AtMostOneAngle ==
  \/ eu.x = 0 /\ eu.y = 0
  \/ eu.x = 0 /\ eu.z = 0
  \/ eu.y = 0 /\ eu.z = 0

\* C10, amended: the triple is reconstructed when |sin(y)| < 0.99, y is
\* between -pi/2 and pi/2, x and z are between -pi and pi, and at most one of
\* the three angles is not 0.
EulerRoundTripOneAxis ==
  (eu.stage = "euler" /\ SinBelowLimit(eu.y) /\ AtMostOneAngle
     /\ FAbs(eu.y) < FRAC_PI_2 /\ FAbs(eu.x) < PI /\ FAbs(eu.z) < PI)
    => Reconstructed

\* The triple (0, 1, 0) has gone through both conversions and has come back.
OneAxisWitness ==
  /\ eu.stage = "euler"
  /\ eu.x = 0 /\ eu.y = 2 * GridStep /\ eu.z = 0
  /\ SinBelowLimit(eu.y)
  /\ Reconstructed
(***************************************************************************)
(* Properties of align_vectors                                             *)
(***************************************************************************)
VNeg(v) == Vector3(FNeg(v[1]), FNeg(v[2]), FNeg(v[3]))

VNear(u, v) == \A k \in 1..3 : Near(u[k], v[k])

MNear(a, b) == \A k \in 1..3 : VNear(a[k], b[k])

\* The determinant of a 3x3 matrix.
Det(m) ==
  FSum3(FMul(m[1][1], FSub(FMul(m[2][2], m[3][3]), FMul(m[2][3], m[3][2]))),
        FNeg(FMul(m[1][2], FSub(FMul(m[2][1], m[3][3]), FMul(m[2][3], m[3][1])))),
        FMul(m[1][3], FSub(FMul(m[2][1], m[3][2]), FMul(m[2][2], m[3][1]))))

\* R is orthonormal with determinant +1.
ProperRotation(r) ==
  /\ MNear(MatMul3(r, Transpose(r)), Identity3)
  /\ Near(Det(r), Scale)

Aligned == al.stage = "aligned"

\* C11: align_vectors(v, v) is the identity for every nonzero v, and
\* R = align_vectors(v, -v) is a proper rotation (R * R^T = I, det R = +1)
\* that takes the unit vector along v to its opposite.
AlignmentIdentities ==
  Aligned =>
    /\ al.r = align_vectors(al.from, al.to)
    /\ al.to = al.from => al.r = Identity3
    /\ al.to = VNeg(al.from) =>
         /\ al.branch = "opposite"
         /\ VNear(MatVec(al.r, al.from_n), VNeg(al.from_n))
         /\ ProperRotation(al.r)

\* C11 happens: a vector off the axes has been aligned with its opposite.
FlipWitness ==
  /\ Aligned
  /\ al.to = VNeg(al.from)
  /\ al.from = Vector3(0, 12000, -16000)
  /\ al.r # Identity3

(***************************************************************************)
(* Properties of euler_from_rotation_xyz                                   *)
(***************************************************************************)
Extracted == eu.stage \in {"regular", "gimbal"}

\* |sy| < 0.99999, in units of 1/Scale.
BelowLock(sy) == ~IsNaN(sy) /\ 10 * sy < 99999 /\ 10 * sy > -99999

\* C12: euler_from_rotation_xyz takes the regular case exactly when
\* |R[0][2]| < 0.99999, and then y = asin(R[0][2]); otherwise it takes the
\* gimbal-lock case, which returns z = 0 and y = +pi/2 when R[0][2] > 0 and
\* -pi/2 otherwise; in both cases it returns three angles.
GimbalLockIsDefined ==
  Extracted =>
    /\ Len(eu.out) = 3
    /\ eu.stage = "regular" <=> BelowLock(At(eu.r, 0, 2))
    /\ eu.stage = "regular" => eu.out[2] = Asin(At(eu.r, 0, 2)) /\ ~IsNaN(eu.out[2])
    /\ eu.stage = "gimbal" =>
         /\ eu.out[3] = 0
         /\ eu.out[2] = (IF ~IsNaN(At(eu.r, 0, 2)) /\ At(eu.r, 0, 2) > 0
                           THEN FRAC_PI_2 ELSE -FRAC_PI_2)

\* C12 happens: a matrix with R[0][2] = 1 and a turn about x has gone
\* through the gimbal-lock case.
GimbalLockWitness ==
  /\ eu.stage = "gimbal"
  /\ At(eu.r, 0, 2) = Scale
  /\ eu.out[2] = FRAC_PI_2
  /\ eu.out[1] # 0

(***************************************************************************)
(* The tests of calculate_passive_joints                                   *)
(***************************************************************************)
\* Lines 434-436: every component differs from the expected one by less than
\* the tolerance of 0.01.
WithinTolerance(result, expected) ==
  /\ Len(result) = 21
  /\ \A k \in 1..21 :
       /\ ~IsNaN(result[k])
       /\ FAbs(FSub(result[k], expected[k])) < Tol

\* C13: with the identity pose, the call returns the expected 21 angles of
\* each of the three scenarios (joints all 0, body yaw 0.1, Stewart joints
\* 0.5) within 0.01 per component.
ScenariosWithinTolerance ==
  \A sc \in Scenarios :
    (Computed(1) /\ act[1].head_joints = sc[1] /\ act[1].head_pose = IdentityPose)
      => WithinTolerance(act[1].ret, sc[2])

\* C13 happens: the call of the third scenario has returned its angles.
ScenarioWitness ==
  /\ Computed(1)
  /\ act[1].head_joints = StewartJointsInput
  /\ act[1].head_pose = IdentityPose
  /\ WithinTolerance(act[1].ret, ExpectedAllStewart)
  /\ ~WithinTolerance(act[1].ret, ExpectedZeroJoints)

(***************************************************************************)
(* Properties of the local proxy                                           *)
(***************************************************************************)
\* No call of set_target_host or clear_target_host is under way.
Quiescent == \A c \in Callers : px.call[c].pc = "idle"

\* C14, as stated: whenever no call is under way, proxy task handles exist
\* only if a target host is set.
ProxyOnlyWithTarget ==
  (Quiescent /\ px.proxy_handles # <<>>) => px.target_host # <<>>

(***************************************************************************)
(* What each step of calculate_passive_joints reads                        *)
(***************************************************************************)
\* The sequence s with every element but the one at index k (from 0)
\* replaced by other(e).
OnlyAt(s, k, other(_)) == [n \in 1..Len(s) |-> IF n = k + 1 THEN s[n] ELSE other(s[n])]

Shifted(a) == a + Scale \div 4

NoRotation(m) == Identity3

Upwards(v) == Vector3(0, 0, Scale)

\* The angles of leg i when every joint but the one at index j, every
\* correction but the i-th and every rod direction but the i-th are others.
LegAloneWith(t, i, j) ==
  euler_from_rotation_xyz(
    LegSolve(i, OnlyAt(act[t].head_joints, j, Shifted), act[t].pose,
             Idx(get_motors, i),
             OnlyAt(act[t].passive_corrections, i, NoRotation),
             OnlyAt(STEWART_ROD_DIR_IN_PASSIVE_FRAME, i, Upwards),
             MOTOR_ARM_LENGTH).r_servo_branch)

AnglesAt(t, i) == <<act[t].ret[3 * i + 1], act[t].ret[3 * i + 2], act[t].ret[3 * i + 3]>>

\* C15: leg i reads joints[i+1], leg geometry i, correction i and rod
\* direction i and nothing else of the joints and the tables; joints[0] is
\* the body yaw of the normalized pose; the head connector reads correction
\* 6; every index read lies inside the 7 joints, the 6 leg entries and the 7
\* corrections.
StepsReadOwnEntries ==
  \A t \in Threads :
    Computed(t) =>
      /\ act[t].pose = NormalizePose(OnlyAt(act[t].head_joints, 0, Shifted),
                                     act[t].head_pose, HEAD_Z_OFFSET)
      /\ \A i \in 0..5 : AnglesAt(t, i) = LegAloneWith(t, i, i + 1)
      /\ AnglesAt(t, 6) =
           HeadSolve(act[t].pose, T_HEAD_XL_330, carry[t].last_r_world_servo,
                     carry[t].last_r_servo_branch,
                     OnlyAt(act[t].passive_corrections, 6, NoRotation))
      /\ Len(act[t].motors) = 6
      /\ \A i \in 0..5 :
           /\ StewartJointIndex(i) \in 1..6
           /\ i < Len(STEWART_ROD_DIR_IN_PASSIVE_FRAME)
           /\ i < Len(act[t].passive_corrections)
      /\ 6 < Len(act[t].passive_corrections)

\* C15 happens: a call with eight joints has returned, and the angles of its
\* leg 0 are others when joints[1] is another.
OwnEntriesWitness ==
  /\ Computed(1)
  /\ Len(act[1].head_joints) = 8
  /\ AnglesAt(1, 0) = LegAloneWith(1, 0, 1)
  /\ AnglesAt(1, 0) # LegAloneWith(1, 0, 0)

(***************************************************************************)
(* The normalized pose                                                     *)
(***************************************************************************)
\* The rotation about Z by the angle a, as a 4x4 matrix.
RzOf(a) ==
  <<<<Cos(a), FNeg(Sin(a)), 0, 0>>, <<Sin(a), Cos(a), 0, 0>>,
    <<0, 0, Scale, 0>>, <<0, 0, 0, Scale>>>>

\* The caller's pose with the height offset added to its Z translation.
Raised(head_pose) ==
  [PoseMatrix(head_pose) EXCEPT ![3][4] = FAdd(@, HEAD_Z_OFFSET)]

\* Thread t's call is past its normalizer.
Normalized(t) == act[t].pc \in {"legs", "head"} \/ Computed(t)

\* The pose of thread t's call is the raised pose turned by -body_yaw about
\* Z: turned back by body_yaw, it is the raised pose.
PoseIsNormalized(t) ==
  /\ act[t].pose[3] = Raised(act[t].head_pose)[3]
  /\ \A r \in 1..4 : \A c \in 1..4 :
       Near(MatMul4(RzOf(Idx(act[t].head_joints, 0)), act[t].pose)[r][c],
            Raised(act[t].head_pose)[r][c])

NormalizedOnce ==
  \A t \in Threads :
    Normalized(t) =>
      /\ PoseIsNormalized(t)
      /\ Cardinality({k \in 1..Len(act[t].trace) : act[t].trace[k] = "normalize"}) = 1
      /\ act[t].trace[1] = "normalize"
      /\ \A i \in 0..(act[t].i - 1) :
           <<act[t].passive_joints[3 * i + 1], act[t].passive_joints[3 * i + 2],
             act[t].passive_joints[3 * i + 3]>> = LegEulerOf(t, i)
      /\ Computed(t) => AnglesAt(t, 6) = HeadEulerFrom(t, LegOf(t, 5))

PoseKept ==
  \A t \in Threads :
    /\ Normalized(t) /\ act'[t].pc \in {"legs", "head", "returned"}
         => act'[t].pose = act[t].pose
    /\ act[t].pc \in Computing => act'[t].head_pose = act[t].head_pose

\* C16: the pose is normalized (height offset added to the Z translation,
\* then premultiplied by the rotation about Z by -body_yaw) once per call,
\* before the first leg; no later step of the call changes it, so the six
\* legs and the head connector read the same normalized pose; the caller's
\* pose is not modified.
PoseNormalizedOnceAndKept == []NormalizedOnce /\ [][PoseKept]_vars

\* C16 happens: a call with a body yaw of 0.1 has returned, and its
\* normalized pose is not the caller's pose.
NormalizedPoseWitness ==
  /\ Computed(1)
  /\ act[1].head_joints = YawJointsInput
  /\ act[1].head_pose = IdentityPose
  /\ act[1].pose # PoseMatrix(act[1].head_pose)
  /\ At(act[1].pose, 2, 3) = HEAD_Z_OFFSET
  /\ At(act[1].pose, 0, 1) # 0

(***************************************************************************)
(* The flip axis of align_vectors                                          *)
(***************************************************************************)
Flipped == Aligned /\ al.branch = "opposite"

\* The cross products of the x axis and of the y axis with f.
XCross(f) == Vector3(0, FNeg(f[3]), f[2])

YCross(f) == Vector3(f[3], 0, FNeg(f[1]))

\* |v| < 0.001
Tiny(v) == 10 * Norm(v) < 100

\* C17: in the nearly opposite case (dot < -0.99999) the flip axis is along
\* the cross product of the x axis with the normalized from vector, and
\* along that of the y axis only when the first is shorter than 0.001; the
\* vector selected is never zero, so the axis is a unit vector that the
\* input determines.
FlipAxisChoice ==
  Flipped =>
    /\ 10 * al.dot < -99999
    /\ al.perp_x = XCross(al.from_n)
    /\ ~Tiny(al.perp_x) => al.perp = XCross(al.from_n)
    /\ Tiny(al.perp_x) => al.perp = YCross(al.from_n)
    /\ Norm(al.perp) > 0
    /\ NoNaN(al.axis)
    /\ Near(Norm(al.axis), Scale)
    /\ VNear(VScale(al.axis, Norm(al.perp)), al.perp)
    /\ al.r = MatAdd(Identity3, MatScale(MatMul3(Skew(al.axis), Skew(al.axis)), 2 * Scale))

\* C17 happens: the cross product with the x axis was shorter than 0.001 and
\* not zero, and the one with the y axis was taken.
FlipAxisWitness ==
  /\ Flipped
  /\ al.perp_x = Vector3(0, 0, 5)
  /\ al.perp = Vector3(0, 0, -Scale)
  /\ al.axis = Vector3(0, 0, -Scale)

HandlePorts == [h \in DOMAIN px.proxy_handles |-> px.proxy_handles[h].port]

\* Outside start_local_proxy and stop_local_proxy there is no handle, or one
\* per port.
NoneOrOnePerPort ==
  px.lock = 0 => (px.proxy_handles = <<>> \/ HandlePorts = PROXY_PORTS)

\* start_local_proxy, finding handles, returns and leaves them as they are;
\* stop_local_proxy leaves no handle when it returns.
StartKeepsStopEmpties ==
  \A c \in Callers :
    /\ (px.call[c].pc = "start" /\ px.proxy_handles # <<>> /\ px'.call[c] # px.call[c])
         => /\ px'.proxy_handles = px.proxy_handles
            /\ px'.call[c].pc = "idle"
    /\ (px.call[c].pc \in {"stop", "drain"} /\ px'.call[c].pc = "clear")
         => px'.proxy_handles = <<>>

\* C19: after any calls of set_target_host and clear_target_host there are 0
\* handles or exactly one per port of PROXY_PORTS; a set_target_host that
\* finds the proxy running spawns no task, and clear_target_host removes
\* every handle.
HandlesNoneOrAll == []NoneOrOnePerPort /\ [][StartKeepsStopEmpties]_vars

\* C19 happens: a second set_target_host found the proxy running and only
\* replaced the target host.
SecondSetWitness ==
  /\ Quiescent
  /\ px.call[1].said = "already running"
  /\ px.target_host = <<"192.168.4.1">>
  /\ Len(px.proxy_handles) = Len(PROXY_PORTS)
  /\ px.proxy_handles[1].task = "listening"

(***************************************************************************)
(* Properties of update_daemon                                             *)
(***************************************************************************)
\* The steps the call has taken.
UpdateDone == {ud.trace[n] : n \in DOMAIN ud.trace}

\* C20: update_daemon stops the daemon before it looks for the venv or runs
\* pip and does not start it again: from the stop on, and in each of the
\* ways the call returns (venv not found, pip not found, pip not run, pip
\* failed, success), the daemon is stopped, also when it was running before
\* the call and the call returns an error.
UpdateLeavesDaemonStopped ==
  /\ (UpdateDone \cap {"venv", "pip_exists", "pip_run"} # {}) => ud.trace[1] = "stop"
  /\ "stop" \in UpdateDone => ud.daemon = "stopped"
  /\ ud.pc = "returned" =>
       /\ "stop" \in UpdateDone
       /\ ud.daemon = "stopped"
       /\ ud.ret \in {"Err: venv not found", "Err: pip not found",
                      "Err: failed to run pip", "Err: pip update failed",
                      "Ok: daemon updated"}
       /\ ud.was = "running" => ud.daemon # ud.was

\* C20 happens: the daemon was running, pip failed, and the call has
\* returned the error with the daemon stopped.
UpdateFailedWitness ==
  /\ ud.pc = "returned"
  /\ ud.was = "running"
  /\ ud.ret = "Err: pip update failed"
  /\ ud.daemon = "stopped"

(***************************************************************************)
(* Properties of start_daemon and of the window events                     *)
(***************************************************************************)
\* The entries that the call of start_daemon under way, or the last one, has
\* logged.
LoggedByCall == SubSeq(dm.logs, Len(dm.was_logs) + 1, Len(dm.logs))

SuccessLogged == \E k \in DOMAIN LoggedByCall : LoggedByCall[k] \in {SuccessMsg(TRUE), SuccessMsg(FALSE)}

StartFailed == dm.pc = "returned" /\ dm.ret = "Err: spawn failed"

KillBeforeSpawn ==
  /\ dm.pc = "spawn" => dm.trace # <<>> /\ dm.trace[Len(dm.trace)] = "kill"
  /\ \A i \in DOMAIN dm.trace :
       dm.trace[i] = "spawn" => i > 1 /\ dm.trace[i - 1] = "kill"

\* C21: start_daemon kills the existing daemons right before it spawns the
\* sidecar, so at most one daemon spawned by the application is alive at any
\* time; a call whose spawn fails returns the error, has logged no success
\* entry, and leaves no daemon alive and no process held.
StartDaemonKillsFirst ==
  /\ Cardinality(dm.alive) <= 1
  /\ KillBeforeSpawn
  /\ StartFailed => ~SuccessLogged /\ dm.alive = {} /\ dm.process = <<>>
  /\ dm.pc = "returned" /\ ~StartFailed =>
       dm.ret = "Ok: Daemon started successfully" /\ SuccessLogged

\* A call made while a daemon was running has failed to spawn its sidecar.
StartFailedWitness ==
  /\ StartFailed
  /\ dm.was_alive # {}
  /\ dm.alive = {}
  /\ dm.calls >= 2
  /\ Len(LoggedByCall) = 1

\* The step handles a window event.
HandlesWindowEvent == dm'.event # dm.event /\ dm'.event # <<>>

DaemonKept == dm'.alive = dm.alive /\ dm'.process = dm.process

WindowEventByLabel ==
  HandlesWindowEvent =>
    LET label == dm'.event[1]
        event == dm'.event[2]
    IN  /\ event = "CloseRequested" =>
             /\ dm'.did = <<"kill_daemon">> <=> label = "main"
             /\ label = "main" => dm'.alive = {} /\ dm'.process = <<>>
        /\ event = "Destroyed" =>
             /\ dm'.did = <<"cleanup_system_daemons">> <=> label = "main"
             /\ label = "main" => dm'.alive = {} /\ dm'.process = dm.process
        /\ label # "main" => dm'.did = <<>> /\ DaemonKept
        /\ event \notin {"CloseRequested", "Destroyed"} => dm'.did = <<>> /\ DaemonKept

\* C25: a CloseRequested event calls kill_daemon exactly when the window's
\* label is "main", a Destroyed event calls cleanup_system_daemons exactly
\* when the label is "main", and an event of another window leaves the
\* daemon alive and held as it was.
OnlyMainWindowKills == [][WindowEventByLabel]_vars

\* A secondary window has been closed while the daemon runs.
SecondaryClosedWitness ==
  /\ dm.event = <<"settings", "CloseRequested">>
  /\ dm.did = <<>>
  /\ dm.alive # {}
  /\ dm.process # <<>>

(***************************************************************************)
(* Properties of the trampoline                                            *)
(***************************************************************************)
TrampolineExited == tr.pc = "exited" /\ tr.child # "none"

InTrace(t, done) == \E k \in DOMAIN t : t[k] = done

\* Once the signal has been seen, the child is killed and waited for.
KilledThenWaited ==
  TrampolineExited /\ InTrace(tr.trace, "kill on signal") =>
    tr.trace[Len(tr.trace)] = "wait" /\ tr.child = "terminated"

ChildTerminatedAtExit == TrampolineExited => tr.child = "terminated"

OwnExitCode ==
  TrampolineExited /\ tr.own => tr.exit_code = (IF tr.status = <<>> THEN <<1>> ELSE tr.status)

\* C22: on Unix, after a termination signal the trampoline kills the child
\* and waits for it before it exits; whenever it exits after a successful
\* spawn the child has terminated; and the exit code of a child that exited
\* by itself (1 if it has none) is the trampoline's.
TrampolineOutlivesChild == KilledThenWaited /\ ChildTerminatedAtExit /\ OwnExitCode

\* The same, for the runs in which neither try_wait nor wait fails.
NoWaitFailed ==
  ~InTrace(tr.trace, "try_wait failed, kill") /\ ~InTrace(tr.trace, "wait failed")

OutlivesChildUnlessWaitFails == NoWaitFailed => TrampolineOutlivesChild

(***************************************************************************)
(* Properties of compare_semver                                            *)
(***************************************************************************)
Antisymmetric ==
  \A a, b \in sv.releases : Compared(a, b) = Reverse(Compared(b, a))

Transitive ==
  \A a, b, c \in sv.releases :
    Compared(a, b) # "Greater" /\ Compared(b, c) # "Greater"
      => Compared(a, c) # "Greater"

LatestIsMaximum ==
  /\ sv.pc # "panicked"
  /\ sv.pc = "returned" /\ sv.pre_release =>
       /\ sv.ret[1] = "Ok"
       /\ \A v \in sv.releases : Compared(v, sv.ret[2]) # "Greater"

\* C23: over the releases of PyPI, whether parse_version accepts them or
\* not, compare_semver is antisymmetric and transitive, and the version
\* that the pre-release channel returns is not below any release, whatever
\* the order of the keys.
CompareSemverIsTotal == Antisymmetric /\ Transitive /\ LatestIsMaximum

\* The same for releases that parse_version accepts all or rejects all.
ParsedPool == [v \in ReleasePool |-> parse_version(v).ok]

AllParse == \A v \in sv.releases : ParsedPool[v]

NoneParses == \A v \in sv.releases : ~ParsedPool[v]

TotalWhenUnmixed == AllParse \/ NoneParses => CompareSemverIsTotal

(***************************************************************************)
(* Properties of UsbMonitorState::update                                   *)
(***************************************************************************)
UsbWithNumbers(port) == port.port_type = "UsbPort" /\ port.vid = 6790 /\ port.pid = 21971

\* k is the place of the first USB port of ports with VID 0x1a86 and PID
\* 0x55d3.
FirstMatch(ports, k) ==
  /\ k \in DOMAIN ports
  /\ UsbWithNumbers(ports[k])
  /\ \A i \in 1..(k - 1) : ~UsbWithNumbers(ports[i])

NamesListedPort ==
  us.reachy_port # <<>> => \E k \in DOMAIN us.available_ports :
                             us.available_ports[k].port_name = us.reachy_port[1]

FailedUpdateKeeps ==
  us'.last = "Err" =>
    us'.reachy_port = us.reachy_port /\ us'.available_ports = us.available_ports

UpdateFinds ==
  /\ us.last = "Ok" =>
       /\ us.available_ports = us.enumerated
       /\ \A k \in DOMAIN us.enumerated :
            FirstMatch(us.enumerated, k) => us.reachy_port = <<us.enumerated[k].port_name>>
       /\ (\A k \in DOMAIN us.enumerated : ~UsbWithNumbers(us.enumerated[k])) => us.reachy_port = <<>>
  /\ NamesListedPort

\* C24: an update whose enumeration fails leaves reachy_port and
\* available_ports as they were; one that succeeds stores the enumerated
\* list and the name of its first USB port with VID 0x1a86 and PID 0x55d3,
\* or None without such a port; a reachy_port that is not None names a port
\* of available_ports.
UpdateKeepsOrFinds == []UpdateFinds /\ [][FailedUpdateKeeps]_vars

\* A failed enumeration after Reachy Mini was found behind another port.
FailedUpdateWitness ==
  /\ us.last = "Err"
  /\ us.reachy_port = <<"COM4">>
  /\ Len(us.available_ports) = 2
  /\ us.available_ports[1].port_name = "COM5"
  /\ us.msg = <<"WM_DEVICECHANGE", DBT_DEVICEREMOVECOMPLETE>>

(***************************************************************************)
(* Properties of the WebSocket relay                                       *)
(***************************************************************************)
\* A direction has ended: by a Close message, the end of the stream, a read
\* error or a send that failed.
SomeDirectionEnded ==
  \E d \in Directions :
    ws.dir[d].pc = "done" /\ ws.dir[d].why \in {"close", "stream ended", "read error", "send failed"}

CloseNotSentOn == \A d \in Directions : \A k \in DOMAIN ws.sent[d] : ws.sent[d][k] # "Close"

EndedRelayReturns == ws.stage = "returned" /\ ws.ret = "Ok" => SomeDirectionEnded

NothingSentAfterEnd ==
  SomeDirectionEnded =>
    /\ ws'.sent = ws.sent
    /\ ws'.dir = ws.dir
    /\ ws'.stage \in {ws.stage, "returned"}

\* C26: once one direction of the relay has ended, by a Close message, the
\* end of the stream, a read error or a failed send, no message is sent on
\* in either direction and the relay can only return; a Close message that
\* was received is never sent on.
RelayEndsWhole == [](CloseNotSentOn /\ EndedRelayReturns) /\ [][NothingSentAfterEnd]_vars

\* The client has closed while a message of the remote was waiting to be
\* sent to it: the relay has returned without sending it.
CloseDropsPendingWitness ==
  /\ ws.stage = "returned"
  /\ ws.ret = "Ok"
  /\ ws.dir["local_to_remote"].why = "close"
  /\ ws.dir["remote_to_local"].pc = "send"
  /\ Len(ws.sent["remote_to_local"]) = 1
  /\ Len(ws.sent["local_to_remote"]) = 1
====
